---- MODULE Spec2Model ----
(***************************************************************************)
(* Model of the iTapRing checkout backend: the order store, the two        *)
(* fulfillment triggers of the Stripe controller (verifyCheckoutSession    *)
(* and handleWebhook/fulfillOrder), the confirmation e-mail dispatch, and  *)
(* the cart validation / checkout-session creation path.                   *)
(*                                                                         *)
(* Every async handler is cut at its awaits: one action is the synchronous *)
(* block of code that runs between two awaits.  The body of an async store *)
(* function (getOrderBySessionId, getAllOrders, saveOrder) has no await of *)
(* its own, so it runs when it is called, inside the caller's block; the   *)
(* caller only sees the result one step later.  Other handlers may run     *)
(* between any two blocks.                                                 *)
(*                                                                         *)
(* Money is counted in mills (1/10 cent, 1/1000 dollar) so that a claimed  *)
(* price that is off by a fraction of a cent can be written down.          *)
(***************************************************************************)
EXTENDS Integers, Sequences, FiniteSets, TLC

(* ------------------------------ bounds --------------------------------- *)

\* number of provider checkout sessions that exist
MaxSessions == 2

\* number of fulfillment requests (verify calls and webhook deliveries) served
MaxRequests == 2

\* number of lines of the carts that are enumerated line by line
MaxLines == 2

\* number of checkout requests served
MaxCheckouts == 2

\* number of changes the shop owner makes to the provider's catalog
MaxCatalogChanges == 1

\* number of price cache refreshes at startup
MaxRefreshes == 1

\* number of catalog reads (GET /api/products) served
MaxReads == 2

\* number of direct calls of updateOrderStatus and getOrderById
MaxStoreCalls == 2

Sessions == 1..MaxSessions
Readers == 1..MaxReads
Requests == 1..MaxRequests

(* ------------------------- program constants --------------------------- *)

\* generateOrderId: const orderNumber = 100001 + orderCount
OrderIdBase == 100001

\* validateProductPrice: retries = 3
Retries == 3

\* validateProductPrice: priceDifference > 0.01 (dollars), in mills
Tolerance == 10

\* validateProductPrice: setTimeout(resolve, 100 * Math.pow(2, attempt - 1))
BackoffBase == 100

\* validateCart: cartItems.length > 50
MaxCartItems == 50

\* validateCart: item.quantity < 1 || item.quantity > 100
MinQuantity == 1
MaxQuantity == 100

\* validateCheckoutSession: item.size < 6 || item.size > 12
MinSize == 6
MaxSize == 12

\* the signing secret the provider signs its events with
ProviderSecret == "whsec_live"

\* process.env.STRIPE_WEBHOOK_SECRET: unset, or the provider's secret
SecretConfigs == {"", ProviderSecret}

\* the key a webhook request was signed with: no stripe-signature header,
\* a signature made without the secret, or the provider's own signature
SigKeys == {"", "whsec_forged", ProviderSecret}

\* checkout session payment_status values of the provider
PaymentStatuses == {"unpaid", "paid", "no_payment_required"}

\* the event types handleWebhook switches on, and one it does not know
EventTypes == {"checkout.session.completed", "payment_intent.succeeded",
               "price.updated", "customer.created"}

VARIABLES
  orders,          \* order.service: the Map orderId -> order, in insertion order
  payment,         \* provider: payment_status of each checkout session
  req,             \* the fulfillment requests: position and locals of each handler
  webhookSecret,   \* process.env.STRIPE_WEBHOOK_SECRET
  emailConfigured, \* isEmailConfigured(): SMTP_HOST, SMTP_USER, SMTP_PASS, OWNER_EMAIL set
  mailLog,         \* per session: sendMail calls made to the customer and to the owner
  now,             \* the clock new Date() reads
  defaultPrice,    \* provider: default_price of each product ("" for none)
  priceActive,     \* provider: the active flag of each price
  priceCache,      \* product.service: the Map stripe product id -> cached entry
  lastCacheUpdate, \* product.service: stamp of the last refresh, 0 for null
  co,              \* the checkout request in flight: position and locals
  created,         \* provider: the checkout sessions created, in order
  refresh,         \* the price cache refresh in flight: position and locals
  reads,           \* the catalog reads: position and locals of each getProducts
  svc,             \* the last direct call of the order service and what it gave
  http,            \* the request passing through the middleware chain of server.js
  env              \* counters: checkout requests, catalog changes, refreshes so far

fulfilVars == <<orders, payment, req, webhookSecret, emailConfigured, mailLog, now>>
cartVars == <<defaultPrice, priceActive, priceCache, lastCacheUpdate, co,
              created, refresh, reads, svc, http, env>>
vars == <<orders, payment, req, webhookSecret, emailConfigured, mailLog, now,
          defaultPrice, priceActive, priceCache, lastCacheUpdate, co,
          created, refresh, reads, svc, http, env>>

(* ---------------------------- order service ---------------------------- *)

\* orders.has(orderId)
HasOrder(store, orderId) == \E i \in 1..Len(store) : store[i].orderId = orderId

\* orders.get(orderId), for an orderId the store has
GetOrder(store, orderId) ==
  store[CHOOSE i \in 1..Len(store) : store[i].orderId = orderId]

\* the position of the first order of the session, 0 when there is none
FirstOfSession(store, sid) ==
  IF \E i \in 1..Len(store) : store[i].stripeSessionId = sid
  THEN CHOOSE i \in 1..Len(store) :
         /\ store[i].stripeSessionId = sid
         /\ \A j \in 1..(i - 1) : store[j].stripeSessionId # sid
  ELSE 0

\* a lookup that never finds an order
getOrderBySessionIdNever(store, sid) == 0

\* getOrderBySessionId: the orderId of the first order of the session in
\* iteration order, 0 for null
getOrderBySessionId(store, sid) ==
  IF FirstOfSession(store, sid) = 0 THEN 0
  ELSE store[FirstOfSession(store, sid)].orderId

\* saveOrder: the record set for a new order, {...orderData, createdAt: new
\* Date(), updatedAt: new Date()} (status "" stands for no status field)
Stored(orderData, date) ==
  [status |-> "", createdAt |-> date, updatedAt |-> date] @@ orderData

\* a saveOrder that sets the Map entry whether or not the orderId is stored
saveOrderOverwrites(store, orderData, date) ==
  IF HasOrder(store, orderData.orderId)
  THEN [i \in 1..Len(store) |->
          IF store[i].orderId = orderData.orderId THEN Stored(orderData, date)
          ELSE store[i]]
  ELSE Append(store, Stored(orderData, date))

\* a saveOrder over a Map that holds one order: a new one evicts the old
saveOrderEvicts(store, orderData, date) ==
  IF HasOrder(store, orderData.orderId) THEN store
  ELSE <<Stored(orderData, date)>>

\* saveOrder: an orderId already in the Map is left alone, a new one is set
saveOrder(store, orderData, date) ==
  IF HasOrder(store, orderData.orderId) THEN store
  ELSE Append(store, Stored(orderData, date))

\* saveOrder: the record it returns, the stored one
saveOrderResult(store, orderData, date) ==
  GetOrder(saveOrder(store, orderData, date), orderData.orderId)

\* no order
NoOrder ==
  [orderId |-> 0, stripeSessionId |-> 0, paymentStatus |-> "", status |-> "",
   createdAt |-> 0, updatedAt |-> 0]

\* what a call of the order service gives: the error thrown ("" for none) and
\* the order returned
Threw(message) == [error |-> message, order |-> NoOrder]
Returned(order) == [error |-> "", order |-> order]

\* getOrderById: the stored order, throws for an orderId that is not stored
getOrderById(store, orderId) ==
  IF HasOrder(store, orderId) THEN Returned(GetOrder(store, orderId))
  ELSE Threw("Order not found")

\* an updateOrderStatus that stamps every stored order
updateOrderStatusStampsAll(store, orderId, status, date) ==
  [i \in 1..Len(store) |->
     IF store[i].orderId = orderId
     THEN [store[i] EXCEPT !.status = status, !.updatedAt = date]
     ELSE [store[i] EXCEPT !.updatedAt = date]]

\* updateOrderStatus: sets status and updatedAt of a stored order, throws
\* (the store is as it was) for an orderId that is not stored
updateOrderStatus(store, orderId, status, date) ==
  [i \in 1..Len(store) |->
     IF store[i].orderId = orderId
     THEN [store[i] EXCEPT !.status = status, !.updatedAt = date]
     ELSE store[i]]

\* updateOrderStatus: the order it returns, or the error it throws
updateOrderStatusResult(store, orderId, status, date) ==
  IF HasOrder(store, orderId)
  THEN Returned(GetOrder(updateOrderStatus(store, orderId, status, date), orderId))
  ELSE Threw("Order not found")

(* ------------------- server.js: the middleware chain ------------------- *)

\* sanitizeString: .slice(0, 1000)
MaxStringLength == 1000

\* str.replace(/[<>]/g, "")
RemoveAngles(str) ==
  LET Kept(c) == c \notin {"<", ">"} IN SelectSeq(str, Kept)

\* str.trim(), the white space being the space character
RECURSIVE trimStart(_)
trimStart(str) ==
  IF str # <<>> /\ str[1] = " " THEN trimStart(Tail(str)) ELSE str

RECURSIVE trimEnd(_)
trimEnd(str) ==
  IF str # <<>> /\ str[Len(str)] = " "
  THEN trimEnd(SubSeq(str, 1, Len(str) - 1)) ELSE str

\* str.slice(0, end)
slice(str, end) == IF Len(str) <= end THEN str ELSE SubSeq(str, 1, end)

\* sanitizeString
sanitizeString(str) ==
  slice(trimEnd(trimStart(RemoveAngles(str))), MaxStringLength)

\* sanitizeObject, over the bodies of the model: an object with a string
\* (customerEmail) and an array of objects with a string (items[n].colorName)
sanitizeObject(obj) ==
  [customerEmail |-> sanitizeString(obj.customerEmail),
   items |-> [n \in 1..Len(obj.items) |->
                [colorName |-> sanitizeString(obj.items[n].colorName)]]]

\* a body with nothing in it
NoBody == [customerEmail |-> <<>>, items |-> <<>>]

\* no request is passing through the chain; parsed says whether req.body is
\* set (it is undefined until a body parser sets it), read what the route
\* handler found in req.body
IdleHttp ==
  [pc |-> "idle", url |-> "", payload |-> NoBody, parsed |-> FALSE,
   body |-> NoBody, read |-> NoBody]

\* before any direct call of the order service
IdleSvc ==
  [op |-> "", orderId |-> 0, status |-> "", error |-> "", order |-> NoOrder,
   calls |-> 0]

\* getAllOrders().length
OrderCount(store) == Len(store)

\* generateOrderId: 100001 + the number of orders stored (the number N stands
\* for the string "IT-N")
generateOrderId(store) == OrderIdBase + OrderCount(store)

\* the orders of a session
OrdersOf(sid) == {i \in 1..Len(orders) : orders[i].stripeSessionId = sid}

(* --------------------------- provider, e-mail -------------------------- *)

\* a constructEvent that accepts every signature
constructEventUnchecked(sigKey, secret) == TRUE

\* stripe.webhooks.constructEvent: the signature verifies exactly when it was
\* made with the secret it is checked against
constructEvent(sigKey, secret) == sigKey = secret

\* verifyCheckoutSession: session.payment_status !== "paid" answers 400
PaymentCompleted(status) == status = "paid"

\* fulfillOrder: the webhook path builds the order from the event's session
\* whatever its payment_status is (it has no payment_status test)
WebhookFulfills(status) == TRUE

\* a catch block that rethrows the dispatch error
EmailRethrows(failed) == failed

\* sendOrderConfirmationEmail: its catch block logs and does not rethrow, so a
\* failed dispatch never reaches the caller as an error
EmailThrows(failed) == FALSE

\* a request slot that has not been used
IdleReq ==
  [kind |-> "idle", pc |-> "idle", sid |-> 0, sigKey |-> "", evType |-> "",
   payStatus |-> "", existing |-> 0, orderId |-> 0,
   mailFailed |-> FALSE, emailThrew |-> FALSE, error |-> "", code |-> 0,
   respOrderId |-> 0]

\* res.status(code).json(...): the handler has answered
Answer(r, code, orderId) ==
  [req[r] EXCEPT !.pc = "done", !.code = code, !.respOrderId = orderId]

\* a catch block that logs the failure of sessions.retrieve and goes on
RetrieveFailedSwallowed(r) ==
  [req[r] EXCEPT !.pc = "genid", !.error = "retrieve",
                 !.orderId = generateOrderId(orders)]

\* sessions.retrieve throws: the catch block of verifyCheckoutSession calls
\* next(error); fulfillOrder rethrows and the catch block of handleWebhook
\* answers 500
RetrieveFailed(r) == [Answer(r, 500, 0) EXCEPT !.error = "retrieve"]

(* --------------- provider: the sessions and what they carry ------------ *)

\* a string of characters is the sequence of its characters; "" and <<>>
\* stand for undefined or null, and so does the size 0
Digits == <<"0", "1", "2", "3", "4", "5", "6", "7", "8", "9">>
NotAvailable == <<"N", "/", "A">>

\* Number.prototype.toString of a natural number
RECURSIVE toString(_)
toString(n) ==
  IF n < Len(Digits) THEN <<Digits[n + 1]>>
  ELSE toString(n \div Len(Digits)) \o <<Digits[(n % Len(Digits)) + 1]>>

\* the number a string of digits denotes
RECURSIVE Decimal(_)
Decimal(s) ==
  IF s = <<>> THEN 0
  ELSE Len(Digits) * Decimal(SubSeq(s, 1, Len(s) - 1))
         + (CHOOSE d \in 1..Len(Digits) : Digits[d] = s[Len(s)]) - 1

\* parseInt(sizeValue, 10): the value of the longest prefix of digits, NaN
\* (here -1) when the string starts with no digit
parseInt(s) ==
  LET IsDigit(c) == \E d \in 1..Len(Digits) : Digits[d] = c
      prefix == CHOOSE k \in 0..Len(s) :
                  /\ \A i \in 1..k : IsDigit(s[i])
                  /\ k = Len(s) \/ ~IsDigit(s[k + 1])
  IN IF prefix = 0 THEN -1 ELSE Decimal(SubSeq(s, 1, prefix))

\* item.size?.toString() || "N/A"
SizeString(size) == IF size = 0 THEN NotAvailable ELSE toString(size)

\* a line numbering that starts at 0
ItemNumFromZero(index) == index - 1

\* fulfillOrder, verifyCheckoutSession: const itemNum = index + 1 (the
\* positions of a sequence start at 1, the indices of an array at 0)
ItemNum(index) == index

\* createCheckoutSession: const num = i + 1
Num(i) == i

\* createCheckoutSession: the metadata of the session, the keys item<n>_id,
\* item<n>_name, item<n>_color, item<n>_size, item<n>_quantity, item<n>_price
\* as one record a line; the prices stay in mills
Metadata(validated) ==
  [itemCount |-> toString(Len(validated)),
   item |-> [n \in {Num(i) : i \in 1..Len(validated)} |->
               LET it == validated[CHOOSE i \in 1..Len(validated) : Num(i) = n]
               IN [id |-> it.productId, name |-> it.productName,
                   color |-> it.color, size |-> SizeString(it.size),
                   quantity |-> toString(it.quantity),
                   price |-> it.validatedPrice]]]

\* session.metadata?.[key], "" for undefined
MetadataValue(metadata, n, key) ==
  IF n \in DOMAIN metadata.item THEN metadata.item[n][key] ELSE ""

MetadataSize(metadata, n) ==
  IF n \in DOMAIN metadata.item THEN metadata.item[n].size ELSE <<>>

\* createCheckoutSession, lineItems: what the provider lists for a line:
\* the description is the product name, amount_total the unit amount by the
\* quantity (in mills)
SessionLineItem(it) ==
  [description |-> it.productName, quantity |-> it.quantity,
   amount_total |-> it.validatedPrice * it.quantity]

\* validateProductPrice and validateCart: a validated line
Purchased(productId, productName, color, size, quantity, validatedPrice) ==
  [productId |-> productId, productName |-> productName, color |-> color,
   size |-> size, quantity |-> quantity, validatedPrice |-> validatedPrice]

\* the validated cart each session was created for
SessionCart(s) ==
  IF s = 1
  THEN <<Purchased("ring-black", "iTapRing", "Black", 12, 2, 80000),
         Purchased("bracelet-cf-marble", "iTapBracelet", "Standard", 0, 1, 120000)>>
  ELSE <<Purchased("ring-black", "iTapRing", "White", 7, 1, 80000)>>

\* what the customer entered on the hosted page: session 1 ships to an
\* address without a second line, session 2 has no shipping details
ShippingDetails(s) ==
  IF s = 1
  THEN <<[name |-> "A. Buyer",
          address |-> [line1 |-> "1 Main St", line2 |-> "", city |-> "Dhaka",
                       state |-> "", postal_code |-> "1207", country |-> "BD"]]>>
  ELSE <<>>

RECURSIVE SumAmounts(_)
SumAmounts(items) ==
  IF items = <<>> THEN 0 ELSE items[1].amount_total + SumAmounts(Tail(items))

\* sessions.retrieve(id, {expand}): the session as the provider returns it;
\* line_items is listed, and payment_intent is an object instead of its id,
\* only when the expand list names them. The session object of a
\* checkout.session.completed event is the session with nothing expanded.
RetrieveSession(s, expand, status) ==
  [id |-> s,
   payment_status |-> status,
   payment_intent |-> [expanded |-> "payment_intent" \in expand,
                       id |-> IF s = 1 THEN "pi_1" ELSE "pi_2"],
   customer_details |-> [email |-> IF s = 1 THEN "a@example.com" ELSE "b@example.com",
                         name |-> IF s = 1 THEN "A. Buyer" ELSE ""],
   amount_total |->
     SumAmounts([n \in 1..Len(SessionCart(s)) |-> SessionLineItem(SessionCart(s)[n])]),
   currency |-> "usd",
   shipping_details |-> ShippingDetails(s),
   line_items |-> IF "line_items" \in expand
                  THEN [n \in 1..Len(SessionCart(s)) |-> SessionLineItem(SessionCart(s)[n])]
                  ELSE <<>>,
   metadata |-> Metadata(SessionCart(s)),
   created |-> s]

EventSession(s, status) == RetrieveSession(s, {}, status)

VerifyExpand == {"line_items", "customer", "payment_intent", "shipping_cost"}
FulfillExpand == {"line_items", "shipping_cost"}

\* the shippingAddress of both triggers: session.shipping_details?.address ?
\* {name, line1, line2 || null, city, state, postal_code, country} : null
shippingAddress(session) ==
  IF session.shipping_details = <<>> THEN <<>>
  ELSE LET d == session.shipping_details[1]
       IN <<[name |-> d.name, line1 |-> d.address.line1,
             line2 |-> d.address.line2, city |-> d.address.city,
             state |-> d.address.state, postal_code |-> d.address.postal_code,
             country |-> d.address.country]>>

\* sizeValue && sizeValue !== "N/A" ? parseInt(sizeValue, 10) : null
DecodeSize(sizeValue) ==
  IF sizeValue # <<>> /\ sizeValue # NotAvailable THEN parseInt(sizeValue) ELSE 0

\* the items of both triggers: line_items.data.map((item, index) => ...)
\* decoding the metadata keys of line index + 1
OrderItems(line_items, metadata) ==
  [index \in 1..Len(line_items) |->
     LET itemNum == ItemNum(index)
         id == MetadataValue(metadata, itemNum, "id")
         name == MetadataValue(metadata, itemNum, "name")
         color == MetadataValue(metadata, itemNum, "color")
     IN [productId |-> IF id # "" THEN id ELSE "unknown",
         name |-> IF name # "" THEN name ELSE line_items[index].description,
         color |-> IF color # "" THEN color ELSE "Unknown",
         size |-> DecodeSize(MetadataSize(metadata, itemNum)),
         quantity |-> line_items[index].quantity,
         price |-> line_items[index].amount_total]]

\* a verify path that asks for no expansion of payment_intent
PaymentIntentIdUnexpanded(payment_intent) == ""

\* verifyCheckoutSession: session.payment_intent?.id || null
PaymentIntentId(payment_intent) ==
  IF payment_intent.expanded THEN payment_intent.id ELSE ""

\* verifyCheckoutSession: orderData, from the session retrieved
verifyOrderData(session, orderId) ==
  [orderId |-> orderId,
   stripeSessionId |-> session.id,
   stripePaymentIntentId |-> PaymentIntentId(session.payment_intent),
   customerEmail |-> session.customer_details.email,
   customerName |-> session.customer_details.name,
   amount |-> session.amount_total,
   currency |-> session.currency,
   paymentStatus |-> session.payment_status,
   shippingAddress |-> shippingAddress(session),
   items |-> OrderItems(session.line_items, session.metadata),
   metadata |-> session.metadata]

\* fulfillOrder: orderData, from the session of the event but for the line
\* items, which come from the session retrieved
fulfillOrderData(session, fullSession, orderId) ==
  [orderId |-> orderId,
   stripeSessionId |-> session.id,
   stripePaymentIntentId |-> session.payment_intent.id,
   customerEmail |-> session.customer_details.email,
   customerName |-> session.customer_details.name,
   amount |-> session.amount_total,
   currency |-> session.currency,
   paymentStatus |-> session.payment_status,
   shippingAddress |-> shippingAddress(session),
   items |-> OrderItems(fullSession.line_items, session.metadata),
   metadata |-> session.metadata]

\* the orderData each trigger builds for a session in a payment status, but
\* for the order id: the provider returns the same session at every call
SessionOrderData ==
  [kind \in {"verify", "webhook"}, s \in Sessions, status \in PaymentStatuses |->
     IF kind = "verify"
     THEN verifyOrderData(RetrieveSession(s, VerifyExpand, status), 0)
     ELSE fulfillOrderData(EventSession(s, status),
                           RetrieveSession(s, FulfillExpand, status), 0)]

\* the orderData of a request, built by the trigger that serves it, with the
\* order id that was generated for the request
OrderData(r) ==
  [SessionOrderData[req[r].kind, req[r].sid, req[r].payStatus]
     EXCEPT !.orderId = req[r].orderId]

Init ==
  /\ orders = <<>>
  /\ payment = [s \in Sessions |-> "unpaid"]
  /\ req = [r \in Requests |-> IdleReq]
  /\ webhookSecret \in SecretConfigs
  /\ emailConfigured \in BOOLEAN
  /\ mailLog = [s \in Sessions |-> [customer |-> 0, owner |-> 0]]
  /\ now = 1
  /\ defaultPrice = [p \in {"prod_ring"} |-> "price_a"] @@
                    [p \in {"prod_bracelet"} |-> "price_c"]
  /\ priceActive = [q \in {"price_a", "price_b", "price_c"} |-> TRUE]
  /\ priceCache = [p \in {"prod_ring", "prod_bracelet"} |->
                     [price |-> 0, priceId |-> ""]]
  /\ lastCacheUpdate = 0
  /\ co = [pc |-> "idle"]
  /\ created = <<>>
  /\ refresh = [pc |-> "idle"]
  /\ reads = <<>>
  /\ svc = IdleSvc
  /\ http = IdleHttp
  /\ env = [checkouts |-> 0, changes |-> 0, refreshes |-> 0]

\* request slots are taken in order: r is the first unused one
FirstIdle(r) ==
  /\ req[r].kind = "idle"
  /\ \A q \in 1..(r - 1) : req[q].kind # "idle"

(* ------------------------------ provider ------------------------------- *)

\* the customer completes the hosted checkout: the session is settled by a
\* card payment, or needs no payment (a promotion code covering the total)
ProviderComplete(s, st) ==
  /\ payment[s] = "unpaid"
  /\ st \in {"paid", "no_payment_required"}
  /\ payment' = [payment EXCEPT ![s] = st]
  /\ UNCHANGED <<orders, req, webhookSecret, emailConfigured, mailLog, now>>
  /\ UNCHANGED cartVars

(* ------------------------ verifyCheckoutSession ------------------------ *)

\* GET /verify-session/:sessionId arrives; sessions.retrieve is awaited
VerifyStart(r, s) ==
  /\ FirstIdle(r)
  /\ req' = [req EXCEPT ![r] = [IdleReq EXCEPT !.kind = "verify",
                                               !.pc = "retrieve", !.sid = s]]
  /\ UNCHANGED <<orders, payment, webhookSecret, emailConfigured, mailLog, now>>
  /\ UNCHANGED cartVars

\* sessions.retrieve fails: catch, next(error)
VerifyRetrieveFailed(r) ==
  /\ req[r].kind = "verify" /\ req[r].pc = "retrieve"
  /\ req' = [req EXCEPT ![r] = RetrieveFailed(r)]
  /\ UNCHANGED <<orders, payment, webhookSecret, emailConfigured, mailLog, now>>
  /\ UNCHANGED cartVars

\* sessions.retrieve answers: the payment_status test, then the call of
\* getOrderBySessionId (which reads the store now)
VerifyRetrieved(r) ==
  /\ req[r].kind = "verify" /\ req[r].pc = "retrieve"
  /\ LET st == payment[req[r].sid] IN
       req' = [req EXCEPT ![r] =
                 IF ~PaymentCompleted(st)
                 THEN [Answer(r, 400, 0) EXCEPT !.payStatus = st]
                 ELSE [@ EXCEPT !.pc = "lookup", !.payStatus = st,
                                !.existing = getOrderBySessionId(orders, req[r].sid)]]
  /\ UNCHANGED <<orders, payment, webhookSecret, emailConfigured, mailLog, now>>
  /\ UNCHANGED cartVars

\* after await getOrderBySessionId: an existing order is returned as it is,
\* else generateOrderId is called (getAllOrders reads the store now)
VerifyLookedUp(r) ==
  /\ req[r].kind = "verify" /\ req[r].pc = "lookup"
  /\ req' = [req EXCEPT ![r] =
               IF req[r].existing # 0 THEN Answer(r, 200, req[r].existing)
               ELSE [@ EXCEPT !.pc = "genid",
                              !.orderId = generateOrderId(orders)]]
  /\ UNCHANGED <<orders, payment, webhookSecret, emailConfigured, mailLog, now>>
  /\ UNCHANGED cartVars

(* ------------------------ handleWebhook, fulfillOrder ------------------ *)

\* what a webhook request may carry: the provider signs only events of its
\* own, and a checkout.session.completed event only for a completed session,
\* with the session's payment_status; anybody else can send anything, here a
\* checkout.session.completed event that says "paid"
WebhookInput(sigKey, evType, s, st) ==
  IF sigKey = ProviderSecret
  THEN IF evType = "checkout.session.completed"
       THEN s \in Sessions /\ payment[s] # "unpaid" /\ st = payment[s]
       ELSE s = 0 /\ st = ""
  ELSE evType = "checkout.session.completed" /\ s \in Sessions /\ st = "paid"

\* handleWebhook up to its first await: the secret test, the signature header
\* test, constructEvent, the switch on the event type; for a
\* checkout.session.completed event fulfillOrder starts and calls
\* getOrderBySessionId (which reads the store now)
WebhookAccepts(sigKey) ==
  /\ webhookSecret # ""
  /\ sigKey # ""
  /\ constructEvent(sigKey, webhookSecret)

handleWebhook(sigKey, evType, s, st) ==
  LET in == [IdleReq EXCEPT !.kind = "webhook", !.sid = s, !.sigKey = sigKey,
                            !.evType = evType, !.payStatus = st]
  IN IF webhookSecret = "" THEN [in EXCEPT !.pc = "done", !.code = 500]
     ELSE IF ~WebhookAccepts(sigKey) THEN [in EXCEPT !.pc = "done", !.code = 400]
     ELSE IF evType = "checkout.session.completed" /\ WebhookFulfills(st)
          THEN [in EXCEPT !.pc = "lookup",
                          !.existing = getOrderBySessionId(orders, s)]
          ELSE [in EXCEPT !.pc = "done", !.code = 200]

\* POST /webhook arrives
WebhookStart(r, sigKey, evType, s, st) ==
  /\ FirstIdle(r)
  /\ WebhookInput(sigKey, evType, s, st)
  /\ req' = [req EXCEPT ![r] = handleWebhook(sigKey, evType, s, st)]
  /\ UNCHANGED <<orders, payment, webhookSecret, emailConfigured, mailLog, now>>
  /\ UNCHANGED cartVars

\* fulfillOrder after await getOrderBySessionId: an existing order ends the
\* fulfillment (the event is acknowledged), else sessions.retrieve is awaited
WebhookLookedUp(r) ==
  /\ req[r].kind = "webhook" /\ req[r].pc = "lookup"
  /\ req' = [req EXCEPT ![r] =
               IF req[r].existing # 0 THEN Answer(r, 200, 0)
               ELSE [@ EXCEPT !.pc = "retrieve"]]
  /\ UNCHANGED <<orders, payment, webhookSecret, emailConfigured, mailLog, now>>
  /\ UNCHANGED cartVars

\* sessions.retrieve fails: fulfillOrder rethrows, handleWebhook answers 500
WebhookRetrieveFailed(r) ==
  /\ req[r].kind = "webhook" /\ req[r].pc = "retrieve"
  /\ req' = [req EXCEPT ![r] = RetrieveFailed(r)]
  /\ UNCHANGED <<orders, payment, webhookSecret, emailConfigured, mailLog, now>>
  /\ UNCHANGED cartVars

\* sessions.retrieve answers: generateOrderId is called (getAllOrders reads
\* the store now)
WebhookRetrieved(r) ==
  /\ req[r].kind = "webhook" /\ req[r].pc = "retrieve"
  /\ req' = [req EXCEPT ![r] = [@ EXCEPT !.pc = "genid",
                                         !.orderId = generateOrderId(orders)]]
  /\ UNCHANGED <<orders, payment, webhookSecret, emailConfigured, mailLog, now>>
  /\ UNCHANGED cartVars

(* ------------------- both triggers: save, mail, answer ----------------- *)

\* after await generateOrderId: orderData is built and saveOrder is called
\* (its body tests and sets the Map now, at a date of its own)
Generated(r) ==
  /\ req[r].pc = "genid"
  /\ orders' = saveOrder(orders, OrderData(r), now)
  /\ now' = now + 1
  /\ req' = [req EXCEPT ![r] = [@ EXCEPT !.pc = "save"]]
  /\ UNCHANGED <<payment, webhookSecret, emailConfigured, mailLog>>
  /\ UNCHANGED cartVars

\* after await saveOrder: sendOrderConfirmationEmail is called; it returns at
\* once when e-mail is not configured, else transporter.verify() is awaited
Saved(r) ==
  /\ req[r].pc = "save"
  /\ req' = [req EXCEPT ![r] =
               [@ EXCEPT !.pc = IF emailConfigured THEN "mail_verify"
                                ELSE "mail_return"]]
  /\ UNCHANGED <<orders, payment, webhookSecret, emailConfigured, mailLog, now>>
  /\ UNCHANGED cartVars

\* the dispatch failed at some await: the catch block runs and the function
\* returns (or, were the error rethrown, throws)
MailFailure(r) ==
  [req[r] EXCEPT !.pc = "mail_return", !.mailFailed = TRUE,
                 !.emailThrew = EmailThrows(TRUE)]

\* transporter.verify() answers: the customer mail is sent next
MailVerified(r, ok) ==
  /\ req[r].pc = "mail_verify"
  /\ IF ok
     THEN /\ req' = [req EXCEPT ![r] = [@ EXCEPT !.pc = "mail_customer"]]
          /\ mailLog' = [mailLog EXCEPT ![req[r].sid].customer = @ + 1]
     ELSE /\ req' = [req EXCEPT ![r] = MailFailure(r)]
          /\ UNCHANGED mailLog
  /\ UNCHANGED <<orders, payment, webhookSecret, emailConfigured, now>>
  /\ UNCHANGED cartVars

\* a dispatch that notifies the owner whether or not the customer mail went out
MailCustomerSentNotifiesAnyway(r, ok) ==
  /\ req[r].pc = "mail_customer"
  /\ req' = [req EXCEPT ![r] = [@ EXCEPT !.pc = "mail_owner", !.mailFailed = ~ok]]
  /\ mailLog' = [mailLog EXCEPT ![req[r].sid].owner = @ + 1]
  /\ UNCHANGED <<orders, payment, webhookSecret, emailConfigured, now>>
  /\ UNCHANGED cartVars

\* sendMail to the customer answers: sendOwnerNotification sends the owner mail
MailCustomerSent(r, ok) ==
  /\ req[r].pc = "mail_customer"
  /\ IF ok
     THEN /\ req' = [req EXCEPT ![r] = [@ EXCEPT !.pc = "mail_owner"]]
          /\ mailLog' = [mailLog EXCEPT ![req[r].sid].owner = @ + 1]
     ELSE /\ req' = [req EXCEPT ![r] = MailFailure(r)]
          /\ UNCHANGED mailLog
  /\ UNCHANGED <<orders, payment, webhookSecret, emailConfigured, now>>
  /\ UNCHANGED cartVars

\* sendMail to the owner answers; sendOwnerNotification catches its own error
MailOwnerSent(r, ok) ==
  /\ req[r].pc = "mail_owner"
  /\ req' = [req EXCEPT ![r] = [@ EXCEPT !.pc = "mail_return",
                                         !.mailFailed = ~ok]]
  /\ UNCHANGED <<orders, payment, webhookSecret, emailConfigured, mailLog, now>>
  /\ UNCHANGED cartVars

\* after await sendOrderConfirmationEmail (inside the caller's own try/catch):
\* verifyCheckoutSession answers 200 with orderData, handleWebhook
\* acknowledges the event
Respond(r) ==
  /\ req[r].pc = "mail_return"
  /\ req' = [req EXCEPT ![r] =
               IF req[r].kind = "verify" THEN Answer(r, 200, req[r].orderId)
               ELSE Answer(r, 200, 0)]
  /\ UNCHANGED <<orders, payment, webhookSecret, emailConfigured, mailLog, now>>
  /\ UNCHANGED cartVars

(* ------------------- provider catalog, price cache --------------------- *)

\* the provider's products and prices; a price belongs to one product and its
\* unit_amount (cents) never changes, the owner changes a product's price by
\* giving it another of its prices as default_price or by archiving a price
StripeProducts == {"prod_ring", "prod_bracelet"}
PriceIds == {"price_a", "price_b", "price_c"}
ProductOf(priceId) == IF priceId = "price_c" THEN "prod_bracelet" ELSE "prod_ring"
UnitAmount(priceId) ==
  IF priceId = "price_a" THEN 8000
  ELSE IF priceId = "price_b" THEN 7998 ELSE 12000

\* getProductIdMap: STRIPE_PRODUCT_RING_BLACK and STRIPE_PRODUCT_CF_MARBLE are
\* set, the variables of the other frontend ids are not ("" stands for
\* undefined)
getProductIdMap(id) ==
  IF id = "ring-black" THEN "prod_ring"
  ELSE IF id = "bracelet-cf-marble" THEN "prod_bracelet" ELSE ""

\* price.unit_amount / 100, dollars counted in mills
actualPrice(unitAmount) == unitAmount * 10

\* Math.round(dollars * 100), dollars counted in mills: the nearest cent
RoundToCents(mills) == (mills + 5) \div 10

Abs(x) == IF x < 0 THEN 0 - x ELSE x

\* a Map entry that is absent
NoEntry == [price |-> 0, priceId |-> ""]

\* the locals of a getProducts request that has not started
IdleRead ==
  [pc |-> "idle", fetched |-> [p \in StripeProducts |-> NoEntry],
   products |-> <<>>, code |-> 0, error |-> ""]

\* fetchStripeProducts: the productMap built from one products.list answer,
\* an entry for every product whose default price exists and is active
fetchStripeProducts ==
  [p \in StripeProducts |->
     IF defaultPrice[p] # "" /\ priceActive[defaultPrice[p]]
     THEN [price |-> actualPrice(UnitAmount(defaultPrice[p])),
           priceId |-> defaultPrice[p]]
     ELSE NoEntry]

(* ----------------------- checkout request inputs ----------------------- *)

\* the cart lines a client may send (size 0 stands for null, prices are in
\* mills): the configured product at the exact price of price_a, half a cent
\* below it, one and a half cents below it (half a cent above price_b), at
\* price zero, in a quantity above the range, and a product that is not
\* configured; no claimed price is exactly one cent from a provider price,
\* where the rounding of the double subtraction decides the comparison
Line(id, price, quantity) ==
  [id |-> id, price |-> price, quantity |-> quantity, size |-> 7]

CartLine ==
  {Line("ring-black", 80000, 2), Line("ring-black", 79995, 2),
   Line("ring-black", 79985, 1), Line("ring-black", 0, 1),
   Line("ring-black", 80000, 101), Line("ring-white", 80000, 1)}

\* every cart of up to MaxLines lines, and carts one line above the limit
Carts ==
  UNION {[1..n -> CartLine] : n \in 0..MaxLines}
    \cup {[i \in 1..(MaxCartItems + 1) |-> l] : l \in CartLine}

\* carts of one line at the provider's price whose size varies: a ring
\* without a size, at and beyond both ends of 6..12, and a bracelet with a size
LineOfSize(id, price, size) == [Line(id, price, 1) EXCEPT !.size = size]

SizedCarts ==
  {<<LineOfSize("ring-black", 80000, z)>> : z \in {0, 5, 6, 12, 13}}
    \cup {<<LineOfSize("bracelet-cf-marble", 120000, z)>> : z \in {7}}

\* a size test that rejects a cart at the limit
TooLargeAtLimit(n) == n >= MaxCartItems

\* a middleware without the size test
ItemAcceptedAnySize(item) ==
  /\ item.id # ""
  /\ item.price > 0
  /\ item.quantity >= 1

\* validateCheckoutSession (middleware): a non-empty array whose items have
\* an id, a positive price, a quantity of at least 1 and a size that is null
\* or in 6..12
ItemAccepted(item) ==
  /\ item.id # ""
  /\ item.price > 0
  /\ item.quantity >= 1
  /\ (item.size # 0 => (item.size >= MinSize /\ item.size <= MaxSize))

validateCheckoutSession(items) ==
  /\ Len(items) > 0
  /\ \A i \in 1..Len(items) : ItemAccepted(items[i])

(* --------------------- validateProductPrice, validateCart -------------- *)

\* validateCart: cartItems.length > 50
TooLarge(n) == n > MaxCartItems

\* a validation reason: kind is the message, id the productId the message
\* names ("" when it names none), pos the cart line it was pushed for
Reason(kind, id, pos) == [ok |-> FALSE, kind |-> kind, id |-> id, pos |-> pos]

\* a comparison that lost Math.abs
PriceMismatchSigned(actual, claimed) == claimed - actual > Tolerance

\* validateProductPrice: priceDifference > 0.01
PriceMismatch(actual, claimed) == Abs(actual - claimed) > Tolerance

\* a validatedPrice taken from the request
ValidatedPriceClaimed(actual, claimed) == claimed

\* validateProductPrice: validatedPrice: actualPrice
ValidatedPrice(actual, claimed) == actual

\* validateProductPrice: the object returned for a verified line
ValidatedItem(item, priceId, pos) ==
  [ok |-> TRUE, kind |-> "", id |-> item.id, pos |-> pos,
   stripeProductId |-> getProductIdMap(item.id), stripePriceId |-> priceId,
   validatedPrice |-> ValidatedPrice(actualPrice(UnitAmount(priceId)), item.price),
   totalPrice |->
     ValidatedPrice(actualPrice(UnitAmount(priceId)), item.price) * item.quantity,
   quantity |-> item.quantity, size |-> item.size]

\* a catch block that retries a timeout or connection error without end
shouldRetryAlways(attempt, kind) == kind = "transient"

\* a catch block that retries whatever was thrown while attempts are left
shouldRetryAny(attempt, kind) == attempt < Retries

\* validateProductPrice, catch block: a timeout or connection error is retried
\* while attempts are left
shouldRetry(attempt, kind) == attempt < Retries /\ kind = "transient"

\* structure tests that leave the quantity range out
StructureErrorNoRange(item) ==
  IF item.id = "" \/ item.price = 0 \/ item.quantity = 0 THEN "missing_fields"
  ELSE ""

\* validateCart: the structure tests of one item, "" when it passes them:
\* !item.id || !item.price || !item.quantity, then
\* item.quantity < 1 || item.quantity > 100
StructureError(item) ==
  IF item.id = "" \/ item.price = 0 \/ item.quantity = 0 THEN "missing_fields"
  ELSE IF item.quantity < MinQuantity \/ item.quantity > MaxQuantity
       THEN "invalid_quantity"
       ELSE ""

\* a validateCart that never rejects
CartRejectedNever(errors) == FALSE

\* validateCart: any validation error rejects the entire cart
CartRejected(errors) == Len(errors) > 0

\* the locals of one attempt, before anything is fetched
NoPrice == [id |-> "", active |-> FALSE]
NoResult == [ok |-> FALSE, kind |-> "", id |-> "", pos |-> 0]

IdleCo ==
  [pc |-> "idle", cart |-> <<>>, i |-> 0, attempt |-> 0,
   stripeProduct |-> "", stripePrice |-> NoPrice, settled |-> NoResult,
   validated |-> <<>>, errors |-> <<>>, rejected |-> NoResult,
   error |-> "", wait |-> 0, failure |-> "", code |-> 0]

\* validateCart's loop from line j on, up to its next await: items that fail
\* the structure tests are recorded and skipped; validateProductPrice is
\* called for the first other item and either throws at once (a productId
\* with no provider product) or awaits products.retrieve; after the last item
\* the cart is rejected or returned
RECURSIVE Advance(_, _)
Advance(h, j) ==
  IF j > Len(h.cart)
  THEN [h EXCEPT !.pc = "cart_settled", !.i = j,
                 !.failure = IF CartRejected(h.errors) THEN "lines" ELSE ""]
  ELSE IF StructureError(h.cart[j]) # ""
  THEN Advance([h EXCEPT !.errors =
                  Append(@, Reason(StructureError(h.cart[j]),
                                   IF StructureError(h.cart[j]) = "missing_fields"
                                   THEN "" ELSE h.cart[j].id, j))], j + 1)
  ELSE IF getProductIdMap(h.cart[j].id) = ""
  THEN [h EXCEPT !.pc = "line_settled", !.i = j, !.attempt = 0,
                 !.settled = Reason("invalid_product", h.cart[j].id, j)]
  ELSE [h EXCEPT !.pc = "product", !.i = j, !.attempt = 1,
                 !.stripeProduct = "", !.stripePrice = NoPrice]

\* a validateProductPrice that falls back on the price cache when its fetch
\* failed and the cached price matches the claimed one
FetchFailedUsesCache(h, kind) ==
  LET item == h.cart[h.i]
      entry == priceCache[getProductIdMap(item.id)]
  IN IF entry.priceId # "" /\ Abs(entry.price - item.price) <= Tolerance
     THEN [h EXCEPT !.pc = "line_settled",
                    !.settled = ValidatedItem(item, entry.priceId, h.i)]
     ELSE [h EXCEPT !.pc = "line_settled",
                    !.settled = Reason(kind, item.id, h.i)]

\* validateProductPrice: the error of a fetch that is not retried is thrown
FetchFailed(h, kind) ==
  [h EXCEPT !.pc = "line_settled",
            !.settled = Reason(kind, h.cart[h.i].id, h.i)]

\* Math.pow(base, exponent), for a natural exponent
RECURSIVE Pow(_, _)
Pow(base, exponent) ==
  IF exponent = 0 THEN 1 ELSE base * Pow(base, exponent - 1)

\* a delay that starts at 200 ms
BackoffFromTwoHundred(attempt) == BackoffBase * Pow(2, attempt)

\* validateProductPrice: the delay of the timer, 100 * Math.pow(2, attempt - 1)
Backoff(attempt) == BackoffBase * Pow(2, attempt - 1)

\* validateProductPrice, catch block: it catches the error of a failed provider
\* call and the rejections thrown inside the try alike, and either awaits the
\* backoff timer or throws the error
AfterFailure(h, kind) ==
  IF shouldRetry(h.attempt, kind)
  THEN [h EXCEPT !.pc = "backoff", !.error = kind, !.wait = Backoff(h.attempt)]
  ELSE FetchFailed(h, kind)

\* createCheckoutSession: unit_amount: Math.round(item.validatedPrice * 100)
LineItem(item) ==
  [unit_amount |-> RoundToCents(item.validatedPrice), quantity |-> item.quantity,
   product_id |-> item.id, size |-> item.size]

LineItems(validated) == [n \in 1..Len(validated) |-> LineItem(validated[n])]

\* a total that adds the unit prices and leaves the quantities out
RECURSIVE SumTotalOfPrices(_)
SumTotalOfPrices(validated) ==
  IF Len(validated) = 0 THEN 0
  ELSE validated[1].validatedPrice + SumTotalOfPrices(Tail(validated))

\* validateCart: Number(totalAmount.toFixed(2)), the sum of the totalPrice
RECURSIVE SumTotal(_)
SumTotal(validated) ==
  IF Len(validated) = 0 THEN 0
  ELSE validated[1].totalPrice + SumTotal(Tail(validated))

totalAmount(validated) == RoundToCents(SumTotal(validated)) * 10

\* validateCart: itemCount: validatedItems.length
itemCount(validated) == Len(validated)

CartInit ==
  /\ orders = <<>>
  /\ payment = [s \in Sessions |-> "unpaid"]
  /\ req = [r \in Requests |-> IdleReq]
  /\ webhookSecret = ProviderSecret
  /\ emailConfigured = TRUE
  /\ mailLog = [s \in Sessions |-> [customer |-> 0, owner |-> 0]]
  /\ now = 1
  /\ defaultPrice = [p \in StripeProducts |->
                       IF p = "prod_ring" THEN "price_a" ELSE "price_c"]
  /\ priceActive = [q \in PriceIds |-> TRUE]
  /\ priceCache = [p \in StripeProducts |-> NoEntry]
  /\ lastCacheUpdate = 0
  /\ co = IdleCo
  /\ created = <<>>
  /\ refresh = [pc |-> "idle", fetched |-> [p \in StripeProducts |-> NoEntry]]
  /\ reads = [r \in Readers |-> IdleRead]
  /\ svc = IdleSvc
  /\ http = IdleHttp
  /\ env = [checkouts |-> 0, changes |-> 0, refreshes |-> 0]

(* ------------------------------ the owner ------------------------------ *)

\* the owner gives a product another default price, or none
SetDefaultPrice(p, q) ==
  /\ env.changes < MaxCatalogChanges
  /\ defaultPrice[p] # q
  /\ q # "" => ProductOf(q) = p
  /\ defaultPrice' = [defaultPrice EXCEPT ![p] = q]
  /\ env' = [env EXCEPT !.changes = @ + 1]
  /\ UNCHANGED <<priceActive, priceCache, lastCacheUpdate, co, created, refresh>>
  /\ UNCHANGED <<reads, svc, http, fulfilVars>>

\* the owner archives a price
ArchivePrice(q) ==
  /\ env.changes < MaxCatalogChanges
  /\ priceActive[q]
  /\ priceActive' = [priceActive EXCEPT ![q] = FALSE]
  /\ env' = [env EXCEPT !.changes = @ + 1]
  /\ UNCHANGED <<defaultPrice, priceCache, lastCacheUpdate, co, created, refresh>>
  /\ UNCHANGED <<reads, svc, http, fulfilVars>>

(* --------------------------- updatePriceCache -------------------------- *)

\* a refresh that adds the fetched entries to the Map it already has
updatePriceCacheMerges(cache, fetched) ==
  [p \in StripeProducts |-> IF fetched[p] # NoEntry THEN fetched[p] ELSE cache[p]]

\* updatePriceCache: priceCache = await fetchStripeProducts(), the Map the
\* fetch built takes the place of the previous one
updatePriceCache(cache, fetched) == fetched

\* updatePriceCache is called (startup, getAllProducts): products.list is awaited
RefreshStart ==
  /\ refresh.pc = "idle"
  /\ env.refreshes < MaxRefreshes
  /\ refresh' = [refresh EXCEPT !.pc = "list"]
  /\ env' = [env EXCEPT !.refreshes = @ + 1]
  /\ UNCHANGED <<defaultPrice, priceActive, priceCache, lastCacheUpdate, co, created>>
  /\ UNCHANGED <<reads, svc, http, fulfilVars>>

\* products.list answers and fetchStripeProducts builds its map, or it fails
\* and updatePriceCache rethrows with the cache as it was
RefreshListed(ok) ==
  /\ refresh.pc = "list"
  /\ refresh' = IF ok THEN [pc |-> "assign", fetched |-> fetchStripeProducts]
                ELSE [refresh EXCEPT !.pc = "idle"]
  /\ UNCHANGED <<defaultPrice, priceActive, priceCache, lastCacheUpdate, co,
                 created, env>>
  /\ UNCHANGED <<reads, svc, http, fulfilVars>>

\* after await fetchStripeProducts: priceCache = ..., lastCacheUpdate = Date.now()
\* (the stamp counts the refreshes started)
RefreshAssigned ==
  /\ refresh.pc = "assign"
  /\ priceCache' = updatePriceCache(priceCache, refresh.fetched)
  /\ lastCacheUpdate' = env.refreshes
  /\ refresh' = [refresh EXCEPT !.pc = "idle"]
  /\ UNCHANGED <<defaultPrice, priceActive, co, created, env>>
  /\ UNCHANGED <<reads, svc, http, fulfilVars>>

(* ----------------------- getProducts, invalidateCache ------------------ *)

\* the frontend ids in the order of getProductIdMap's keys
FrontendIds == <<"ring-black", "ring-white", "bracelet-cf-marble">>

\* getAllProducts after its refresh: for every frontend id that is configured
\* and has an entry in the cache, the product with the cached price
getAllProducts(cache) ==
  LET Cached(id) ==
        IF getProductIdMap(id) = "" THEN FALSE
        ELSE cache[getProductIdMap(id)] # NoEntry
      ids == SelectSeq(FrontendIds, Cached)
  IN [n \in 1..Len(ids) |->
        [id |-> ids[n], stripeProductId |-> getProductIdMap(ids[n]),
         stripePriceId |-> cache[getProductIdMap(ids[n])].priceId,
         price |-> cache[getProductIdMap(ids[n])].price]]

\* the catalog reads that have started
ReadsStarted == Cardinality({r \in Readers : reads[r].pc # "idle"})

\* a getProducts that answers from the cache while it is marked fresh
GetProductsStartWhenStale(r) ==
  /\ reads[r].pc = "idle"
  /\ \A q \in Readers : q < r => reads[q].pc # "idle"
  /\ reads' = [reads EXCEPT ![r] =
                 IF lastCacheUpdate = 0 THEN [@ EXCEPT !.pc = "list"]
                 ELSE [@ EXCEPT !.pc = "done", !.code = 200,
                                !.products = getAllProducts(priceCache)]]
  /\ UNCHANGED <<defaultPrice, priceActive, priceCache, lastCacheUpdate, co,
                 created, refresh, env>>
  /\ UNCHANGED <<svc, http, fulfilVars>>

\* GET /api/products arrives: getProducts calls getAllProducts, which calls
\* updatePriceCache whatever lastCacheUpdate is; products.list is awaited
GetProductsStart(r) ==
  /\ reads[r].pc = "idle"
  /\ \A q \in Readers : q < r => reads[q].pc # "idle"
  /\ reads' = [reads EXCEPT ![r].pc = "list"]
  /\ UNCHANGED <<defaultPrice, priceActive, priceCache, lastCacheUpdate, co,
                 created, refresh, env>>
  /\ UNCHANGED <<svc, http, fulfilVars>>

\* what products.list may answer: the list, a connection error (a Stripe
\* error without statusCode) or an API error (a Stripe error with statusCode)
ListOutcomes == {"ok", "connection", "api"}

\* errorHandler, Stripe errors: res.status(err.statusCode || 400)
errorHandler(outcome) == IF outcome = "api" THEN 500 ELSE 400

\* a getProducts whose failed refresh empties the cache
GetProductsListedClears(r, outcome) ==
  /\ reads[r].pc = "list"
  /\ reads' = [reads EXCEPT ![r] =
                 IF outcome = "ok"
                 THEN [@ EXCEPT !.pc = "assign", !.fetched = fetchStripeProducts]
                 ELSE [@ EXCEPT !.pc = "done", !.code = errorHandler(outcome),
                                !.error = outcome]]
  /\ priceCache' = IF outcome = "ok" THEN priceCache
                   ELSE [p \in StripeProducts |-> NoEntry]
  /\ lastCacheUpdate' = IF outcome = "ok" THEN lastCacheUpdate ELSE 0
  /\ UNCHANGED <<defaultPrice, priceActive, co, created, refresh, env>>
  /\ UNCHANGED <<svc, http, fulfilVars>>

\* products.list answers and fetchStripeProducts returns its map; or the call
\* fails: fetchStripeProducts, updatePriceCache and getAllProducts rethrow
\* the error, getProducts passes it to next(error) and errorHandler answers
GetProductsListed(r, outcome) ==
  /\ reads[r].pc = "list"
  /\ reads' = [reads EXCEPT ![r] =
                 IF outcome = "ok"
                 THEN [@ EXCEPT !.pc = "assign", !.fetched = fetchStripeProducts]
                 ELSE [@ EXCEPT !.pc = "done", !.code = errorHandler(outcome),
                                !.error = outcome]]
  /\ UNCHANGED <<defaultPrice, priceActive, priceCache, lastCacheUpdate, co,
                 created, refresh, env>>
  /\ UNCHANGED <<svc, http, fulfilVars>>

\* updatePriceCache after await fetchStripeProducts: priceCache = ...,
\* lastCacheUpdate = Date.now() (the stamp counts the refreshes started); it
\* returns, and getAllProducts goes on after its await updatePriceCache():
\* the loop over the frontend ids reads priceCache and getProducts answers
\* 200 with the products. Nothing is awaited between the assignment and the
\* loop but the promise the assignment itself settles, and every other
\* refresh goes on from a provider answer of its own, in another turn of the
\* event loop: the assignment and the loop are one step.
GetProductsAssigned(r) ==
  /\ reads[r].pc = "assign"
  /\ priceCache' = updatePriceCache(priceCache, reads[r].fetched)
  /\ lastCacheUpdate' = env.refreshes + ReadsStarted
  /\ reads' = [reads EXCEPT ![r] =
                 [@ EXCEPT !.pc = "done", !.code = 200,
                           !.products = getAllProducts(priceCache')]]
  /\ UNCHANGED <<defaultPrice, priceActive, co, created, refresh, env>>
  /\ UNCHANGED <<svc, http, fulfilVars>>

\* an invalidation that drops the cached entries as well
InvalidateCacheClears ==
  /\ lastCacheUpdate' = 0
  /\ priceCache' = [p \in StripeProducts |-> NoEntry]
  /\ UNCHANGED <<defaultPrice, priceActive, co, created, refresh, reads, env>>
  /\ UNCHANGED <<svc, http, fulfilVars>>

\* invalidateCache: lastCacheUpdate = null
InvalidateCache ==
  /\ lastCacheUpdate' = 0
  /\ UNCHANGED <<defaultPrice, priceActive, priceCache, co, created, refresh,
                 reads, env>>
  /\ UNCHANGED <<svc, http, fulfilVars>>

(* ------------------------ createCheckoutSession ------------------------ *)

\* validateCheckoutSession (middleware): the test the item fails first
MiddlewareKind(item) ==
  IF item.id = "" THEN "missing_id"
  ELSE IF item.price <= 0 THEN "invalid_price"
  ELSE IF item.quantity < 1 THEN "invalid_quantity"
  ELSE "invalid_size"

\* validateCheckoutSession (middleware): it answers 400 at the first item
\* that fails a test, with "Item <position>: <message>", and returns
FirstRejected(items) ==
  CHOOSE i \in 1..Len(items) :
    /\ ~ItemAccepted(items[i])
    /\ \A j \in 1..(i - 1) : ItemAccepted(items[j])

MiddlewareReason(items) ==
  IF Len(items) = 0 THEN [ok |-> FALSE, kind |-> "cart_empty", id |-> "", pos |-> 0]
  ELSE [ok |-> FALSE, kind |-> MiddlewareKind(items[FirstRejected(items)]),
        id |-> "", pos |-> FirstRejected(items)]

\* a validateCart whose validationErrors outlive the call
validateCartKeepsErrors(h) ==
  IF Len(h.cart) = 0
  THEN [h EXCEPT !.pc = "cart_settled", !.failure = "empty"]
  ELSE IF TooLarge(Len(h.cart))
  THEN [h EXCEPT !.pc = "cart_settled", !.failure = "too_large"]
  ELSE Advance([h EXCEPT !.errors = co.errors], 1)

\* validateCart up to its first await: an empty cart and a cart above the
\* limit throw before the loop
validateCart(h) ==
  IF Len(h.cart) = 0
  THEN [h EXCEPT !.pc = "cart_settled", !.failure = "empty"]
  ELSE IF TooLarge(Len(h.cart))
  THEN [h EXCEPT !.pc = "cart_settled", !.failure = "too_large"]
  ELSE Advance(h, 1)

\* POST /create-checkout-session arrives: the middleware answers 400 or lets
\* the request through to createCheckoutSession, which calls validateCart; an
\* empty cart and a cart above the limit are rejected before the loop
CheckoutStart(cart) ==
  /\ co.pc \in {"idle", "done"}
  /\ env.checkouts < MaxCheckouts
  /\ env' = [env EXCEPT !.checkouts = @ + 1]
  /\ LET h == [IdleCo EXCEPT !.cart = cart] IN
       co' = IF ~validateCheckoutSession(cart)
             THEN [h EXCEPT !.pc = "done", !.code = 400, !.failure = "middleware",
                            !.rejected = MiddlewareReason(cart)]
             ELSE validateCart(h)
  /\ UNCHANGED <<defaultPrice, priceActive, priceCache, lastCacheUpdate,
                 created, refresh>>
  /\ UNCHANGED <<reads, svc, http, fulfilVars>>

\* products.retrieve answers: without a default price the line fails, else
\* prices.retrieve is awaited; a failed call is retried or thrown
ProductRetrieved(outcome) ==
  /\ co.pc = "product"
  /\ LET p == getProductIdMap(co.cart[co.i].id) IN
       co' = IF outcome # "ok" THEN AfterFailure(co, outcome)
             ELSE IF defaultPrice[p] = ""
             THEN AfterFailure(co, "no_default_price")
             ELSE [co EXCEPT !.pc = "price", !.stripeProduct = defaultPrice[p]]
  /\ UNCHANGED <<defaultPrice, priceActive, priceCache, lastCacheUpdate,
                 created, refresh, env>>
  /\ UNCHANGED <<reads, svc, http, fulfilVars>>

\* prices.retrieve answers: an inactive price and a price mismatch fail the
\* line, else the verified item is returned; a failed call is retried or thrown
PriceRetrieved(outcome) ==
  /\ co.pc = "price"
  /\ LET item == co.cart[co.i]
         q == co.stripeProduct
     IN co' =
          IF outcome # "ok" THEN AfterFailure(co, outcome)
          ELSE LET h == [co EXCEPT
                           !.stripePrice = [id |-> q, active |-> priceActive[q]]]
               IN IF ~priceActive[q]
                  THEN AfterFailure(h, "price_inactive")
                  ELSE IF PriceMismatch(actualPrice(UnitAmount(q)), item.price)
                  THEN AfterFailure(h, "price_mismatch")
                  ELSE [h EXCEPT !.pc = "line_settled",
                                 !.settled = ValidatedItem(item, q, co.i)]
  /\ UNCHANGED <<defaultPrice, priceActive, priceCache, lastCacheUpdate,
                 created, refresh, env>>
  /\ UNCHANGED <<reads, svc, http, fulfilVars>>

\* the backoff timer fires: the next attempt awaits products.retrieve
BackoffDone ==
  /\ co.pc = "backoff"
  /\ co' = [co EXCEPT !.pc = "product", !.attempt = @ + 1, !.error = "",
                      !.wait = 0, !.stripeProduct = "", !.stripePrice = NoPrice]
  /\ UNCHANGED <<defaultPrice, priceActive, priceCache, lastCacheUpdate,
                 created, refresh, env>>
  /\ UNCHANGED <<reads, svc, http, fulfilVars>>

\* validateCart after await validateProductPrice: the verified item is pushed,
\* or the catch block pushes "<id>: <message>"; the loop goes on
LineSettled ==
  /\ co.pc = "line_settled"
  /\ co' = Advance(
       IF co.settled.ok
       THEN [co EXCEPT !.validated = Append(@, co.settled), !.settled = NoResult]
       ELSE [co EXCEPT !.errors = Append(@, co.settled), !.settled = NoResult],
       co.i + 1)
  /\ UNCHANGED <<defaultPrice, priceActive, priceCache, lastCacheUpdate,
                 created, refresh, env>>
  /\ UNCHANGED <<reads, svc, http, fulfilVars>>

\* createCheckoutSession after await validateCart: a validation error is
\* answered 400 with the reasons; else the line items are built from the
\* validated items and sessions.create is awaited
CartSettled ==
  /\ co.pc = "cart_settled"
  /\ co' = IF co.failure # "" THEN [co EXCEPT !.pc = "done", !.code = 400]
           ELSE [co EXCEPT !.pc = "create"]
  /\ UNCHANGED <<defaultPrice, priceActive, priceCache, lastCacheUpdate,
                 created, refresh, env>>
  /\ UNCHANGED <<reads, svc, http, fulfilVars>>

\* sessions.create answers: the session exists and 200 is answered with its
\* id and validatedAmount; or the call failed: next(error)
SessionCreated(ok) ==
  /\ co.pc = "create"
  /\ IF ok
     THEN /\ created' = Append(created,
               [cart |-> co.cart, validated |-> co.validated,
                line_items |-> LineItems(co.validated),
                validatedAmount |-> totalAmount(co.validated)])
          /\ co' = [co EXCEPT !.pc = "done", !.code = 200]
     ELSE /\ created' = created
          /\ co' = [co EXCEPT !.pc = "done", !.code = 500, !.failure = "provider"]
  /\ UNCHANGED <<defaultPrice, priceActive, priceCache, lastCacheUpdate,
                 refresh, env>>
  /\ UNCHANGED <<reads, svc, http, fulfilVars>>

ProviderOutcomes == {"ok", "transient", "fatal"}

CartNext ==
  \/ \E p \in StripeProducts, q \in PriceIds \cup {""} : SetDefaultPrice(p, q)
  \/ \E q \in PriceIds : ArchivePrice(q)
  \/ RefreshStart
  \/ \E ok \in BOOLEAN : RefreshListed(ok)
  \/ RefreshAssigned
  \/ \E cart \in Carts \cup SizedCarts : CheckoutStart(cart)
  \/ \E outcome \in ProviderOutcomes : ProductRetrieved(outcome)
  \/ \E outcome \in ProviderOutcomes : PriceRetrieved(outcome)
  \/ BackoffDone
  \/ LineSettled
  \/ CartSettled
  \/ \E ok \in BOOLEAN : SessionCreated(ok)

CartSpec == CartInit /\ [][CartNext]_vars

(* --------------------------- validateCart alone ------------------------ *)

\* the carts validateCart is called with: those above, and carts of exactly
\* the limit whose lines but the last fail the structure tests (they cost no
\* provider call)
CartsAtLimit ==
  {[i \in 1..MaxCartItems |->
      IF i < MaxCartItems THEN Line("ring-black", 80000, 101) ELSE l] :
     l \in CartLine}

\* carts of two lines, one of them with a quantity below 1 (the route's
\* middleware lets none through, validateCart tests for them all the same)
CartsBelowOne ==
  UNION {{<<Line("ring-black", 80000, q), l>>, <<l, Line("ring-black", 80000, q)>>} :
           q \in {0, -1}, l \in CartLine}

\* validateCart(cartItems) is called, once no call is in flight
ValidateCartCalled(cart) ==
  /\ co.pc \in {"idle", "cart_settled"}
  /\ env.checkouts < MaxCheckouts
  /\ env' = [env EXCEPT !.checkouts = @ + 1]
  /\ co' = validateCart([IdleCo EXCEPT !.cart = cart])
  /\ UNCHANGED <<defaultPrice, priceActive, priceCache, lastCacheUpdate,
                 created, refresh>>
  /\ UNCHANGED <<reads, svc, http, fulfilVars>>

ValidateNext ==
  \/ \E p \in StripeProducts, q \in PriceIds \cup {""} : SetDefaultPrice(p, q)
  \/ \E q \in PriceIds : ArchivePrice(q)
  \/ \E cart \in Carts \cup CartsAtLimit \cup CartsBelowOne : ValidateCartCalled(cart)
  \/ \E outcome \in ProviderOutcomes : ProductRetrieved(outcome)
  \/ \E outcome \in ProviderOutcomes : PriceRetrieved(outcome)
  \/ BackoffDone
  \/ LineSettled

ValidateSpec == CartInit /\ [][ValidateNext]_vars


\* every provider call of validateProductPrice is answered or fails (the
\* timeoutPromise rejects after 10 s at the latest), the backoff timer fires
\* and the loop of validateCart goes on
ValidateFairness ==
  /\ WF_vars(\E outcome \in ProviderOutcomes : ProductRetrieved(outcome))
  /\ WF_vars(\E outcome \in ProviderOutcomes : PriceRetrieved(outcome))
  /\ WF_vars(BackoffDone)
  /\ WF_vars(LineSettled)

ValidateLiveSpec == CartInit /\ [][ValidateNext]_vars /\ ValidateFairness
(* ------------------------------ the catalog ---------------------------- *)

\* catalog reads, the startup refresh, invalidations and the owner's changes
CatalogNext ==
  \/ \E p \in StripeProducts, q \in PriceIds \cup {""} : SetDefaultPrice(p, q)
  \/ \E q \in PriceIds : ArchivePrice(q)
  \/ RefreshStart
  \/ \E ok \in BOOLEAN : RefreshListed(ok)
  \/ RefreshAssigned
  \/ \E r \in Readers : GetProductsStart(r)
  \/ \E r \in Readers, outcome \in ListOutcomes : GetProductsListed(r, outcome)
  \/ \E r \in Readers : GetProductsAssigned(r)
  \/ InvalidateCache

CatalogSpec == CartInit /\ [][CatalogNext]_vars

Next ==
  \/ \E s \in Sessions, st \in PaymentStatuses : ProviderComplete(s, st)
  \/ \E r \in Requests, s \in Sessions : VerifyStart(r, s)
  \/ \E r \in Requests : VerifyRetrieveFailed(r)
  \/ \E r \in Requests : VerifyRetrieved(r)
  \/ \E r \in Requests : VerifyLookedUp(r)
  \/ \E r \in Requests, k \in SigKeys, t \in EventTypes,
        s \in Sessions \cup {0}, st \in PaymentStatuses \cup {""} :
          WebhookStart(r, k, t, s, st)
  \/ \E r \in Requests : WebhookLookedUp(r)
  \/ \E r \in Requests : WebhookRetrieveFailed(r)
  \/ \E r \in Requests : WebhookRetrieved(r)
  \/ \E r \in Requests : Generated(r)
  \/ \E r \in Requests : Saved(r)
  \/ \E r \in Requests, ok \in BOOLEAN : MailVerified(r, ok)
  \/ \E r \in Requests, ok \in BOOLEAN : MailCustomerSent(r, ok)
  \/ \E r \in Requests, ok \in BOOLEAN : MailOwnerSent(r, ok)
  \/ \E r \in Requests : Respond(r)

Spec == Init /\ [][Next]_vars

(* ------------------ direct calls of the order service ------------------ *)

\* the orderIds and statuses the calls are made with: those the store can
\* hold and one it never holds
StoreCallIds == OrderIdBase..(OrderIdBase + MaxRequests)
StoreCallStatuses == {"processing", "shipped"}

\* updateOrderStatus(orderId, status) is called
UpdateOrderStatus(orderId, status) ==
  /\ svc.calls < MaxStoreCalls
  /\ orders' = updateOrderStatus(orders, orderId, status, now)
  /\ svc' = [op |-> "updateOrderStatus", orderId |-> orderId, status |-> status,
             error |-> updateOrderStatusResult(orders, orderId, status, now).error,
             order |-> updateOrderStatusResult(orders, orderId, status, now).order,
             calls |-> svc.calls + 1]
  /\ now' = now + 1
  /\ UNCHANGED <<payment, req, webhookSecret, emailConfigured, mailLog>>
  /\ UNCHANGED <<defaultPrice, priceActive, priceCache, lastCacheUpdate, co,
                 created, refresh, reads, http, env>>

\* getOrderById(orderId) is called
GetOrderById(orderId) ==
  /\ svc.calls < MaxStoreCalls
  /\ svc' = [op |-> "getOrderById", orderId |-> orderId, status |-> "",
             error |-> getOrderById(orders, orderId).error,
             order |-> getOrderById(orders, orderId).order,
             calls |-> svc.calls + 1]
  /\ UNCHANGED fulfilVars
  /\ UNCHANGED <<defaultPrice, priceActive, priceCache, lastCacheUpdate, co,
                 created, refresh, reads, http, env>>

\* the secret is configured, the mail settings are not (no mail is sent)
OrderInit == Init /\ webhookSecret = ProviderSecret /\ ~emailConfigured

\* the verify calls that fill the store, and direct calls of the order
\* service between their steps
OrderNext ==
  \/ \E s \in Sessions, st \in PaymentStatuses : ProviderComplete(s, st)
  \/ \E r \in Requests, s \in Sessions : VerifyStart(r, s)
  \/ \E r \in Requests : VerifyRetrieveFailed(r)
  \/ \E r \in Requests : VerifyRetrieved(r)
  \/ \E r \in Requests : VerifyLookedUp(r)
  \/ \E r \in Requests : Generated(r)
  \/ \E r \in Requests : Saved(r)
  \/ \E r \in Requests : Respond(r)
  \/ \E orderId \in StoreCallIds, status \in StoreCallStatuses :
       UpdateOrderStatus(orderId, status)
  \/ \E orderId \in StoreCallIds : GetOrderById(orderId)

OrderSpec == OrderInit /\ [][OrderNext]_vars

(* ------------------ product and price events, catalog reads ------------ *)

\* handleWebhook: the events of the cases product.created, product.updated
\* and price.created, price.updated
CatalogEvents ==
  {"product.created", "product.updated", "price.created", "price.updated"}

\* the store holds the order of a paid session when the events arrive
PriceEventInit ==
  /\ orders = <<Stored(verifyOrderData(RetrieveSession(1, VerifyExpand, "paid"),
                                       OrderIdBase), 1)>>
  /\ payment = [s \in Sessions |-> IF s = 1 THEN "paid" ELSE "unpaid"]
  /\ req = [r \in Requests |-> IdleReq]
  /\ webhookSecret = ProviderSecret
  /\ emailConfigured = TRUE
  /\ mailLog = [s \in Sessions |-> [customer |-> 0, owner |-> 0]]
  /\ now = 2
  /\ defaultPrice = [p \in StripeProducts |->
                       IF p = "prod_ring" THEN "price_a" ELSE "price_c"]
  /\ priceActive = [q \in PriceIds |-> TRUE]
  /\ priceCache = [p \in StripeProducts |-> NoEntry]
  /\ lastCacheUpdate = 0
  /\ co = IdleCo
  /\ created = <<>>
  /\ refresh = [pc |-> "idle", fetched |-> [p \in StripeProducts |-> NoEntry]]
  /\ reads = [r \in Readers |-> IdleRead]
  /\ svc = IdleSvc
  /\ http = IdleHttp
  /\ env = [checkouts |-> 0, changes |-> 0, refreshes |-> 0]

\* the owner's changes, the provider's product and price events, the
\* startup refresh and the catalog reads
PriceEventNext ==
  \/ \E p \in StripeProducts, q \in PriceIds \cup {""} : SetDefaultPrice(p, q)
  \/ \E q \in PriceIds : ArchivePrice(q)
  \/ \E r \in Requests, t \in CatalogEvents :
       WebhookStart(r, ProviderSecret, t, 0, "")
  \/ RefreshStart
  \/ \E ok \in BOOLEAN : RefreshListed(ok)
  \/ RefreshAssigned
  \/ \E r \in Readers : GetProductsStart(r)
  \/ \E r \in Readers, outcome \in ListOutcomes : GetProductsListed(r, outcome)
  \/ \E r \in Readers : GetProductsAssigned(r)

PriceEventSpec == PriceEventInit /\ [][PriceEventNext]_vars

(* ------------------ a request through the middleware chain ------------- *)

WebhookUrl == "/api/stripe/webhook"
CheckoutUrl == "/api/stripe/create-checkout-session"

\* the JSON documents a client may send: the colour of the one item is a
\* string of up to two characters out of a letter, a space and the two angle
\* brackets, or a string of 1001 letters
Payloads ==
  {[customerEmail |-> <<"a", "@", "a">>, items |-> <<[colorName |-> s]>>] :
     s \in UNION {[1..n -> {"a", " ", "<", ">"}] : n \in 0..2}
              \cup {[i \in 1..(MaxStringLength + 1) |-> "a"]}}

\* a request arrives with its payload still unread; helmet, securityHeaders,
\* requestTimeout, cors, morgan, securityLogger and rateLimiter pass it on
HttpArrives(url, payload) ==
  /\ http.pc \in {"idle", "done"}
  /\ http' = [IdleHttp EXCEPT !.pc = "sanitize", !.url = url, !.payload = payload]
  /\ UNCHANGED <<defaultPrice, priceActive, priceCache, lastCacheUpdate, co,
                 created, refresh, reads, svc, env>>
  /\ UNCHANGED fulfilVars

\* app.use(sanitizeBody): req.body is sanitized if it is set and an object
\* (sanitizeQuery and sanitizeParams follow and leave the body alone)
SanitizeBody ==
  /\ http.pc = "sanitize"
  /\ http' = [http EXCEPT !.pc = "parse",
                          !.body = IF http.parsed THEN sanitizeObject(@) ELSE @]
  /\ UNCHANGED <<defaultPrice, priceActive, priceCache, lastCacheUpdate, co,
                 created, refresh, reads, svc, env>>
  /\ UNCHANGED fulfilVars

\* the body parser of server.js: the webhook route is passed on unparsed,
\* for every other route express.json() reads the payload and sets req.body
JsonBodyParser ==
  /\ http.pc = "parse"
  /\ http' = IF http.url = WebhookUrl THEN [http EXCEPT !.pc = "route"]
             ELSE [http EXCEPT !.pc = "route", !.parsed = TRUE,
                               !.body = http.payload]
  /\ UNCHANGED <<defaultPrice, priceActive, priceCache, lastCacheUpdate, co,
                 created, refresh, reads, svc, env>>
  /\ UNCHANGED fulfilVars

\* the route is reached: its handler reads req.body (the webhook route reads
\* the raw bytes its own express.raw() has set)
RouteHandler ==
  /\ http.pc = "route"
  /\ http' = [http EXCEPT !.pc = "done",
                          !.read = IF http.parsed THEN http.body ELSE http.payload]
  /\ UNCHANGED <<defaultPrice, priceActive, priceCache, lastCacheUpdate, co,
                 created, refresh, reads, svc, env>>
  /\ UNCHANGED fulfilVars

RequestNext ==
  \/ \E url \in {WebhookUrl, CheckoutUrl}, payload \in Payloads :
       HttpArrives(url, payload)
  \/ SanitizeBody
  \/ JsonBodyParser
  \/ RouteHandler

RequestSpec == CartInit /\ [][RequestNext]_vars

(* ----------------- redelivery by the provider, fairness ---------------- *)

\* the provider's own checkout.session.completed deliveries
Delivery(q) ==
  /\ q.kind = "webhook" /\ q.sigKey = ProviderSecret
  /\ q.evType = "checkout.session.completed"

\* the provider delivers an event again after an answer that is not 2xx: the
\* same event arrives at handleWebhook (the answered request gives way to it)
Redeliver(r) ==
  /\ Delivery(req[r]) /\ req[r].pc = "done" /\ req[r].code >= 400
  /\ req' = [req EXCEPT ![r] = handleWebhook(req[r].sigKey, req[r].evType,
                                             req[r].sid, req[r].payStatus)]
  /\ UNCHANGED <<orders, payment, webhookSecret, emailConfigured, mailLog, now>>
  /\ UNCHANGED cartVars

\* the secret is configured, as the redeliveries could else never be accepted
LiveInit == Init /\ webhookSecret = ProviderSecret

LiveNext == Next \/ \E r \in Requests : Redeliver(r)

\* every handler that can take a step takes one, an event answered with an
\* error is delivered again, and sessions.retrieve, tried again and again,
\* answers: the provider and store calls eventually succeed
Fairness ==
  \A r \in Requests :
    /\ WF_vars(VerifyRetrieved(r) \/ VerifyRetrieveFailed(r))
    /\ WF_vars(VerifyLookedUp(r))
    /\ WF_vars(WebhookLookedUp(r))
    /\ SF_vars(WebhookRetrieved(r))
    /\ WF_vars(Redeliver(r))
    /\ WF_vars(Generated(r))
    /\ WF_vars(Saved(r))
    /\ WF_vars(\E ok \in BOOLEAN : MailVerified(r, ok))
    /\ WF_vars(\E ok \in BOOLEAN : MailCustomerSent(r, ok))
    /\ WF_vars(\E ok \in BOOLEAN : MailOwnerSent(r, ok))
    /\ WF_vars(Respond(r))

LiveSpec == LiveInit /\ [][LiveNext]_vars /\ Fairness

(* ======================== fulfillment: properties ====================== *)

\* the verify requests that answered 200 with an order
ReturnedOrder(r) ==
  req[r].kind = "verify" /\ req[r].pc = "done" /\ req[r].code = 200

\* C1: in every reachable state of the order store there is at most one
\* stored Order for any given session id
C1_AtMostOneOrderPerSession ==
  \A s \in Sessions : Cardinality(OrdersOf(s)) <= 1

\* C2: for a paid session whose fulfillment was invoked by several requests
\* (verify calls and webhook deliveries), every verify call that returns an
\* Order returns the same orderId, and every Order persisted for the session
\* is the one with that orderId
C2_AllCallsReturnTheSingleOrder ==
  \A r1 \in Requests :
    (ReturnedOrder(r1) /\ payment[req[r1].sid] = "paid")
    => /\ \A r2 \in Requests :
            (ReturnedOrder(r2) /\ req[r2].sid = req[r1].sid)
              => req[r2].respOrderId = req[r1].respOrderId
       /\ \A i \in OrdersOf(req[r1].sid) : orders[i].orderId = req[r1].respOrderId

\* C3: no Order is ever persisted for a session whose provider payment_status
\* is not "paid", whichever trigger ran the fulfillment
C3_OrdersOnlyForPaidSessions ==
  \A i \in 1..Len(orders) : payment[orders[i].stripeSessionId] = "paid"

\* a webhook request whose signature does not verify against a configured secret
Unverified(q) ==
  q.kind = "webhook" /\ (webhookSecret = "" \/ q.sigKey # webhookSecret)

\* C4 (state part): a webhook request is past the signature test, or was
\* acknowledged, only with a secret configured and a signature made with it;
\* a request with a missing or invalid signature, or with no secret
\* configured, is answered 400 or 500 without a store lookup or an orderId
C4_Inv ==
  \A r \in Requests :
    /\ (req[r].kind = "webhook" /\ (req[r].pc # "done" \/ req[r].code = 200))
         => (webhookSecret # "" /\ req[r].sigKey # ""
             /\ req[r].sigKey = webhookSecret)
    /\ Unverified(req[r])
         => /\ req[r].pc = "done" /\ req[r].code \in {400, 500}
            /\ req[r].existing = 0 /\ req[r].orderId = 0

\* C4 (step part): a step of such a request leaves the order store and the
\* mail log unchanged
C4_Step ==
  \A r \in Requests :
    (req'[r] # req[r] /\ Unverified(req'[r]))
      => (orders' = orders /\ mailLog' = mailLog)

\* C4: handleWebhook processes an event only after the signature was verified
\* against the configured secret; a request with a missing signature header,
\* an invalid signature, or with no secret configured is rejected with an
\* error response and leaves the order store unchanged
C4_SignatureVerifiedFirst == [](C4_Inv) /\ [][C4_Step]_vars

\* C4 witness: a forged request was answered 400 while the fulfillment of a
\* request signed by the provider is under way
C4_Witness ==
  \E r1, r2 \in Requests :
    /\ req[r1].kind = "webhook" /\ req[r1].sigKey = "whsec_forged"
    /\ req[r1].pc = "done" /\ req[r1].code = 400
    /\ req[r2].kind = "webhook" /\ req[r2].sigKey = ProviderSecret
    /\ req[r2].pc = "save" /\ Len(orders) = 1

MailPcs == {"mail_verify", "mail_customer", "mail_owner", "mail_return"}

\* C9 (state part): a request whose dispatch failed saw no error from
\* sendOrderConfirmationEmail, and once it has answered, the answer is 200,
\* for a verify call with the orderId of its orderData, and an order with that
\* orderId is in the store
C9_Inv ==
  \A r \in Requests :
    req[r].mailFailed
      => /\ ~req[r].emailThrew
         /\ HasOrder(orders, req[r].orderId)
         /\ req[r].pc = "done"
              => /\ req[r].code = 200
                 /\ req[r].kind = "verify"
                      => req[r].respOrderId = req[r].orderId

\* C9 (step part): the steps of the dispatch and the answer that follows it
\* leave the order store unchanged
C9_Step ==
  \A r \in Requests :
    (req[r].pc \in MailPcs /\ req'[r] # req[r]) => orders' = orders

\* C9: a failure of notification dispatch (transport verify, customer mail or
\* owner mail) never fails or rolls back fulfillment: sendOrderConfirmationEmail
\* never propagates an error, the Order saved before the dispatch stays in the
\* store, and the verify call still returns the Order with success
C9_DispatchFailureIsSwallowed == [](C9_Inv) /\ [][C9_Step]_vars

\* C9 witness: a verify call whose customer mail failed has answered 200 with
\* the order it saved
C9_Witness ==
  \E r \in Requests :
    /\ ReturnedOrder(r) /\ req[r].mailFailed
    /\ mailLog[req[r].sid].customer = 1 /\ mailLog[req[r].sid].owner = 0
    /\ \E i \in 1..Len(orders) :
         /\ orders[i].orderId = req[r].respOrderId
         /\ orders[i].stripeSessionId = req[r].sid

\* C10: whenever verifyCheckoutSession answers with success and an Order, an
\* Order with that orderId and that stripeSessionId is in the order store
C10_ReturnedOrderIsPersisted ==
  \A r \in Requests :
    ReturnedOrder(r)
      => \E i \in 1..Len(orders) :
           /\ orders[i].orderId = req[r].respOrderId
           /\ orders[i].stripeSessionId = req[r].sid


(* ================== fulfillment: properties, continued ================= *)

\* C11: for each session at most one customer confirmation and at most one
\* owner notification is sent, however many requests fulfil the session
C11_DispatchAtMostOnce ==
  \A s \in Sessions : mailLog[s].customer <= 1 /\ mailLog[s].owner <= 1

\* the requests that hold a generated orderId
HoldsOrderId(r) == req[r].kind \in {"verify", "webhook"} /\ req[r].orderId # 0

\* C12: two fulfillments of two different sessions hold different orderIds
C12_OrderIdsUnique ==
  \A r1, r2 \in Requests :
    (HoldsOrderId(r1) /\ HoldsOrderId(r2) /\ req[r1].sid # req[r2].sid)
      => req[r1].orderId # req[r2].orderId

\* C13: every step that inserts an Order inserts it for a session that had
\* no Order in the store: saveOrder of an Order whose stripeSessionId is that
\* of a stored Order inserts nothing
C13_InsertIfAbsentBySession ==
  [][\A i \in 1..Len(orders') :
       i > Len(orders)
         => getOrderBySessionId(orders, orders'[i].stripeSessionId) = 0]_vars


\* the requests about to call saveOrder with an orderId the store holds
SavesDuplicate(r) ==
  req[r].pc = "genid" /\ HasOrder(orders, req[r].orderId)

\* C14 (state part): for the orderData of every request about to call
\* saveOrder, saving it at a later date again leaves the store as after the
\* first save, and when its orderId is stored the first save leaves the store
\* as it is and returns the stored record
C14_Inv ==
  \A r \in Requests :
    req[r].pc = "genid"
      => /\ saveOrder(saveOrder(orders, OrderData(r), now), OrderData(r), now + 1)
              = saveOrder(orders, OrderData(r), now)
         /\ HasOrder(orders, req[r].orderId)
              => /\ saveOrder(orders, OrderData(r), now) = orders
                 /\ saveOrderResult(orders, OrderData(r), now)
                      = GetOrder(orders, req[r].orderId)

\* C14 (step part): the step of a request that calls saveOrder with a stored
\* orderId leaves the store unchanged and goes on without an error
C14_Step ==
  \A r \in Requests :
    (SavesDuplicate(r) /\ req'[r] # req[r])
      => (orders' = orders /\ req'[r].pc = "save")

\* C14: saveOrder of an Order whose orderId is already in the store is an
\* idempotent no-op: it raises no error, returns the record already stored
\* and leaves every stored Order, createdAt and updatedAt included, unchanged;
\* saving the same Order twice leaves the store as after saving it once
C14_DuplicateSaveIsNoOp == [](C14_Inv) /\ [][C14_Step]_vars

\* C14 witness: two requests hold the same orderId, both have called
\* saveOrder, and the store holds the one Order the first call inserted, with
\* the date of that call
C14_Witness ==
  \E r1, r2 \in Requests :
    /\ r1 # r2 /\ req[r1].orderId # 0 /\ req[r1].orderId = req[r2].orderId
    /\ req[r1].pc = "save" /\ req[r2].pc = "save"
    /\ Len(orders) = 1 /\ orders[1].createdAt = 1 /\ orders[1].updatedAt = 1
    /\ now = 3


\* C15 (state part): a request whose lookup found an Order holds no orderId
\* of its own, is at the lookup or has answered 200, for a verify call with
\* the orderId found; the Order found is in the store, for its session
C15_Inv ==
  \A r \in Requests :
    req[r].existing # 0
      => /\ req[r].orderId = 0
         /\ req[r].pc \in {"lookup", "done"}
         /\ HasOrder(orders, req[r].existing)
         /\ GetOrder(orders, req[r].existing).stripeSessionId = req[r].sid
         /\ req[r].pc = "done"
              => /\ req[r].code = 200
                 /\ req[r].kind = "verify" => req[r].respOrderId = req[r].existing

\* C15 (step part): a lookup made while the store holds an Order for the
\* session finds it, and every step of a request whose lookup found an Order
\* leaves the order store and the mail log unchanged
C15_Step ==
  \A r \in Requests :
    /\ (req[r].pc # "lookup" /\ req'[r].pc = "lookup"
          /\ OrdersOf(req'[r].sid) # {})
         => \E i \in OrdersOf(req'[r].sid) : req'[r].existing = orders[i].orderId
    /\ (req'[r].existing # 0 /\ req'[r] # req[r])
         => (orders' = orders /\ mailLog' = mailLog)

\* C15: when an Order already exists for the session at the lookup of a
\* further fulfillment (verify call or webhook delivery), the fulfillment
\* returns that Order, generates no new orderId, leaves the order store
\* unchanged and dispatches no notification
C15_ShortCircuit == [](C15_Inv) /\ [][C15_Step]_vars

\* C15 witness: after a webhook delivery stored the Order of a session and
\* sent its mails, a verify call for the session answered 200 with that Order
C15_Witness ==
  \E r1, r2 \in Requests :
    /\ req[r1].kind = "webhook" /\ req[r1].pc = "done" /\ req[r1].orderId # 0
    /\ req[r2].kind = "verify" /\ req[r2].pc = "done" /\ req[r2].code = 200
    /\ req[r2].existing = req[r1].orderId /\ req[r2].sid = req[r1].sid
    /\ req[r2].respOrderId = req[r1].orderId
    /\ Len(orders) = 1 /\ mailLog[req[r1].sid].customer = 1


\* the statuses updateOrderStatus may be given
OrderStatuses == {"processing", "shipped"}

\* the store keeps every order of the older store, in place, with its orderId
\* and its stripeSessionId
Keeps(newer, older) ==
  /\ Len(newer) >= Len(older)
  /\ \A i \in 1..Len(older) :
       /\ newer[i].orderId = older[i].orderId
       /\ newer[i].stripeSessionId = older[i].stripeSessionId

\* C16 (state part): updateOrderStatus of any orderId, stored or not, keeps
\* every stored Order with its orderId and stripeSessionId, and no two stored
\* Orders have one orderId
C16_Inv ==
  /\ \A id \in {generateOrderId(orders)} \cup {orders[i].orderId : i \in 1..Len(orders)},
        st \in OrderStatuses :
       /\ Keeps(updateOrderStatus(orders, id, st, now), orders)
       /\ Len(updateOrderStatus(orders, id, st, now)) = Len(orders)
  /\ \A i, j \in 1..Len(orders) : orders[i].orderId = orders[j].orderId => i = j

\* C16: once an Order for a session is in the store it stays in the store
\* with the same orderId and the same stripeSessionId in every later state;
\* no operation deletes an Order or replaces it by another one
C16_FulfilledIsTerminal == [](C16_Inv) /\ [][Keeps(orders', orders)]_vars

\* C16 witness: the Order the first fulfillment stored is in the store, in
\* place and with its date, after a further fulfillment stored a second Order
\* and every request has ended
C16_Witness ==
  /\ Len(orders) = 2 /\ orders[1].orderId = OrderIdBase
  /\ orders[1].createdAt = 1 /\ orders[2].createdAt = 2
  /\ \A r \in Requests : req[r].pc = "done"


\* C17 (state part): a request whose sessions.retrieve failed has answered
\* with 500, holds no orderId and made no dispatch attempt of its own
C17_Inv ==
  \A r \in Requests :
    req[r].error = "retrieve"
      => /\ req[r].pc = "done" /\ req[r].code = 500
         /\ req[r].orderId = 0 /\ req[r].respOrderId = 0
         /\ ~req[r].mailFailed

\* C17 (step part): the step in which sessions.retrieve fails answers at
\* once (the call is not made again) and leaves the order store unchanged,
\* and a request that has answered takes no further step
C17_Step ==
  \A r \in Requests :
    /\ (req'[r].error = "retrieve" /\ req'[r] # req[r])
         => /\ req[r].pc = "retrieve" /\ req'[r].pc = "done"
            /\ orders' = orders /\ mailLog' = mailLog
    /\ req[r].pc = "done" => req'[r] = req[r]

\* C17: when the provider call that retrieves the session detail fails during
\* fulfillment, the failure is surfaced to the caller (the webhook handler
\* answers 500, the verify call passes the error on), the call is not retried
\* inside the pipeline, and no Order is persisted for the session by the
\* invocation
C17_RetrieveFailureSurfaced == [](C17_Inv) /\ [][C17_Step]_vars

\* C17 witness: the retrieve of a webhook delivery and the retrieve of a
\* verify call for a paid session both failed, both answered 500 and the
\* store is empty
C17_Witness ==
  \E r1, r2 \in Requests :
    /\ req[r1].kind = "webhook" /\ req[r1].error = "retrieve" /\ req[r1].code = 500
    /\ req[r2].kind = "verify" /\ req[r2].error = "retrieve" /\ req[r2].code = 500
    /\ payment[req[r1].sid] = "paid" /\ payment[req[r2].sid] = "paid"
    /\ orders = <<>>


\* the provider has delivered the checkout.session.completed event of the
\* paid session s
Delivered(s) ==
  \E r \in Requests :
    Delivery(req[r]) /\ req[r].sid = s /\ req[r].payStatus = "paid"

\* C18: under redelivery after every error answer and fairness, once the
\* checkout.session.completed event of a paid session was delivered, from
\* some moment on exactly one Order for the session is in the store
C18_FulfillmentConverges ==
  \A s \in Sessions :
    Delivered(s) ~> [](Cardinality(OrdersOf(s)) = 1)


\* the step is a direct call of the order service
StoreCall == svc'.calls = svc.calls + 1

C29_Step ==
  StoreCall =>
    /\ Len(orders') = Len(orders)
    /\ IF ~HasOrder(orders, svc'.orderId)
       THEN /\ svc'.error = "Order not found" /\ svc'.order = NoOrder
            /\ orders' = orders
       ELSE /\ svc'.error = ""
            /\ svc'.order = GetOrder(orders', svc'.orderId)
            /\ svc'.op = "getOrderById" => orders' = orders
            /\ svc'.op = "updateOrderStatus" =>
                 \A i \in 1..Len(orders) :
                   orders'[i] =
                     IF orders[i].orderId = svc'.orderId
                     THEN [orders[i] EXCEPT !.status = svc'.status,
                                            !.updatedAt = now]
                     ELSE orders[i]

\* C29: a call of updateOrderStatus or getOrderById with an orderId the store
\* does not hold throws "Order not found" and leaves the store as it is; a
\* call of updateOrderStatus with a stored orderId sets the status and the
\* updatedAt of that Order, leaves its other fields and every other Order as
\* they are, and returns the Order; getOrderById returns the stored Order and
\* changes nothing
C29_NotFoundAndFrame == [][C29_Step]_vars

\* the second of two stored Orders was given a status, later than it was
\* created, the first is as it was stored, and a further call for an orderId
\* that is not stored threw
C29_Witness ==
  /\ Len(orders) = 2 /\ svc.calls = 2
  /\ orders[2].status = "shipped" /\ orders[2].updatedAt > orders[2].createdAt
  /\ orders[1].status = "" /\ orders[1].updatedAt = orders[1].createdAt
  /\ svc.error = "Order not found" /\ ~HasOrder(orders, svc.orderId)

\* the fulfillment of request r ran to its end without error: it generated an
\* orderId, called saveOrder and answered 200
Fulfilled(r) == HoldsOrderId(r) /\ req[r].pc = "done" /\ req[r].code = 200

\* C30: when the fulfillments of two different paid sessions have both ended
\* without error, the store holds an Order of each of the two sessions
C30_NoSessionLosesItsOrder ==
  \A r1, r2 \in Requests :
    (/\ Fulfilled(r1) /\ Fulfilled(r2)
     /\ req[r1].sid # req[r2].sid
     /\ payment[req[r1].sid] = "paid" /\ payment[req[r2].sid] = "paid")
      => OrdersOf(req[r1].sid) # {} /\ OrdersOf(req[r2].sid) # {}


\* the validated carts the round trip is tried on: up to two lines, sizes
\* absent (0), of one digit and of two, colours non-empty
MetaSizes == {0, 6, 10, 12}
MetaLines ==
  {Purchased(id, "iTap", color, size, 1, 80000) :
     id \in {"ring-black", "bracelet-cf-marble"},
     color \in {"Black", "Standard"}, size \in MetaSizes}
MetaCarts == UNION {[1..n -> MetaLines] : n \in 1..2}

\* the Order items agree, line by line, with the validated lines
ItemsOfCart(items, validated) ==
  /\ Len(items) = Len(validated)
  /\ \A n \in 1..Len(validated) :
       /\ items[n].productId = validated[n].productId
       /\ items[n].color = validated[n].color
       /\ items[n].size = validated[n].size

\* C31: metadata round trip: for every validated cart (sizes absent or
\* integers, colours non-empty) decoding the keys item<n>_id, item<n>_color
\* and item<n>_size by line position gives, for each Order item, the
\* productId, colour and size of the n-th validated line; an absent size is
\* encoded as "N/A" and decoded as null. This holds for the bounded carts,
\* and for the items of every order either trigger has stored (the
\* conversion depends on the cart alone: the bounded carts are tried in the
\* states where no request has started).
C31_MetadataRoundTrip ==
  /\ \A v \in IF \A r \in Requests : req[r].kind = "idle" THEN MetaCarts ELSE {} :
       /\ ItemsOfCart(OrderItems([n \in 1..Len(v) |-> SessionLineItem(v[n])],
                                 Metadata(v)), v)
       /\ \A n \in 1..Len(v) :
            (v[n].size = 0) <=> (MetadataSize(Metadata(v), Num(n)) = NotAvailable)
  /\ \A i \in 1..Len(orders) :
       ItemsOfCart(orders[i].items, SessionCart(orders[i].stripeSessionId))

\* an order of session 1 is stored: its first item has the two-digit size 12,
\* its second item the size null, which the metadata carried as "N/A"
C31_Witness ==
  \E i \in 1..Len(orders) :
    /\ orders[i].stripeSessionId = 1
    /\ orders[i].items[1].size = 12 /\ orders[i].items[1].color = "Black"
    /\ orders[i].items[2].size = 0
    /\ orders[i].items[2].productId = "bracelet-cf-marble"
    /\ orders[i].metadata.item[2].size = NotAvailable
    /\ orders[i].metadata.item[1].size = <<"1", "2">>


\* the fields the two triggers are compared on
SameOrderFields(a, b) ==
  /\ a.stripeSessionId = b.stripeSessionId
  /\ a.stripePaymentIntentId = b.stripePaymentIntentId
  /\ a.customerEmail = b.customerEmail /\ a.customerName = b.customerName
  /\ a.amount = b.amount /\ a.currency = b.currency
  /\ a.paymentStatus = b.paymentStatus
  /\ a.shippingAddress = b.shippingAddress
  /\ a.items = b.items

\* the request saved the order it built: the store holds it under its orderId
SavedItsOrder(r) ==
  /\ req[r].orderId # 0 /\ req[r].payStatus = "paid"
  /\ \E i \in 1..Len(orders) :
       /\ orders[i].orderId = req[r].orderId
       /\ orders[i].stripeSessionId = req[r].sid

\* C32: the two triggers run the same pipeline: for the same paid session and
\* the same provider data, the Order built by the webhook path (fulfillOrder)
\* and the Order built by the verify path (verifyCheckoutSession) have equal
\* stripeSessionId, stripePaymentIntentId, customer fields, amount, currency,
\* paymentStatus, shippingAddress and items; so have any two orders stored
\* for one paid session.
C32_SamePipeline ==
  /\ \A s \in Sessions :
       SameOrderFields(
         verifyOrderData(RetrieveSession(s, VerifyExpand, "paid"), 0),
         fulfillOrderData(EventSession(s, "paid"),
                          RetrieveSession(s, FulfillExpand, "paid"), 0))
  /\ \A i, j \in 1..Len(orders) :
       (/\ orders[i].stripeSessionId = orders[j].stripeSessionId
        /\ orders[i].paymentStatus = "paid" /\ orders[j].paymentStatus = "paid")
       => SameOrderFields(orders[i], orders[j])

\* a verify call and a webhook delivery of the same paid session have each
\* stored the order they built, under two orderIds
C32_Witness ==
  \E r1, r2 \in Requests :
    /\ req[r1].kind = "verify" /\ req[r2].kind = "webhook"
    /\ req[r1].sid = req[r2].sid
    /\ req[r1].orderId # req[r2].orderId
    /\ SavedItsOrder(r1) /\ SavedItsOrder(r2)
    /\ Len(orders) = 2


\* the positions of sendOrderConfirmationEmail at which a mail call is awaited
MailSteps == {"mail_verify", "mail_customer", "mail_owner"}

C38_Inv ==
  /\ \A s \in Sessions : mailLog[s].owner <= mailLog[s].customer
  /\ \A r \in Requests :
       req[r].pc = "mail_owner" => (~req[r].mailFailed /\ emailConfigured)

C38_Step ==
  /\ \A r \in Requests :
       \* the owner notification starts in the step in which the customer
       \* send of the same call succeeded, and in no other
       /\ (req'[r].pc = "mail_owner" /\ req[r].pc # "mail_owner")
            => /\ req[r].pc = "mail_customer" /\ ~req'[r].mailFailed
               /\ mailLog'[req[r].sid].owner = mailLog[req[r].sid].owner + 1
       \* not configured: no mail call at all
       /\ (req[r].pc = "save" /\ req'[r] # req[r] /\ ~emailConfigured)
            => req'[r].pc = "mail_return" /\ mailLog' = mailLog
       \* the verify or the customer send fails: the call returns at once
       /\ (req[r].pc \in {"mail_verify", "mail_customer"} /\ req'[r].mailFailed)
            => req'[r].pc = "mail_return" /\ mailLog' = mailLog
       \* the owner notification, sent or failed, ends the call and touches
       \* no count: the customer mail is not sent again
       /\ (req[r].pc = "mail_owner" /\ req'[r] # req[r])
            => req'[r].pc = "mail_return" /\ mailLog' = mailLog
       /\ (req[r].pc \in {"mail_return", "done"})
            => req'[r].pc \notin MailSteps
       \* one customer send a call: it is issued when the verify succeeded
       /\ (req'[r].pc = "mail_customer" /\ req[r].pc # "mail_customer")
            => /\ req[r].pc = "mail_verify"
               /\ mailLog'[req[r].sid].customer = mailLog[req[r].sid].customer + 1
  /\ \A s \in Sessions :
       /\ mailLog'[s].owner # mailLog[s].owner
            => \E r \in Requests :
                 /\ req[r].sid = s /\ req[r].pc = "mail_customer"
                 /\ req'[r].pc = "mail_owner"
       /\ mailLog'[s].customer # mailLog[s].customer
            => \E r \in Requests :
                 /\ req[r].sid = s /\ req[r].pc = "mail_verify"
                 /\ req'[r].pc = "mail_customer"

\* C38: within one call of sendOrderConfirmationEmail the owner notification
\* is attempted only after the customer confirmation was sent successfully:
\* if email is not configured, the transport verify fails or the customer
\* send fails, no owner notification is attempted; a failure of the owner
\* notification does not undo or repeat the customer send
C38_OwnerAfterCustomer == [](C38_Inv) /\ [][C38_Step]_vars

\* the owner notification of a call failed after its customer mail went out:
\* the call has returned with one customer mail and one owner attempt
C38_Witness ==
  \E r \in Requests :
    /\ req[r].pc = "mail_return" /\ req[r].mailFailed
    /\ mailLog[req[r].sid] = [customer |-> 1, owner |-> 1]


(* ========================== checkout: properties ======================= *)

\* the validated items of cart line i
AcceptedAt(i) == {n \in 1..Len(co.validated) : co.validated[n].pos = i}

\* the reasons pushed for cart line i that name its productId
ReasonsNaming(i) ==
  {e \in 1..Len(co.errors) :
     co.errors[e].pos = i /\ co.errors[e].id = co.cart[i].id}

\* the same cart but for the claimed prices
SameButPrices(c1, c2) ==
  /\ Len(c1) = Len(c2)
  /\ \A n \in 1..Len(c1) : [c1[n] EXCEPT !.price = 0] = [c2[n] EXCEPT !.price = 0]

C6_LineItemsUseProviderPrice ==
  /\ \A c \in 1..Len(created) :
       /\ Len(created[c].line_items) = Len(created[c].cart)
       /\ \A n \in 1..Len(created[c].line_items) :
            /\ created[c].line_items[n].unit_amount
                 = UnitAmount(created[c].validated[n].stripePriceId)
            /\ created[c].line_items[n].quantity = created[c].cart[n].quantity
            /\ created[c].line_items[n].product_id = created[c].cart[n].id
  /\ \A c1, c2 \in 1..Len(created) :
       ( /\ SameButPrices(created[c1].cart, created[c2].cart)
         /\ \A n \in 1..Len(created[c1].cart) :
              created[c1].validated[n].stripePriceId
                = created[c2].validated[n].stripePriceId )
       => /\ created[c1].line_items = created[c2].line_items
          /\ created[c1].validatedAmount = created[c2].validatedAmount

\* C6 witness: two sessions were created from carts that differ in a claimed
\* price only
C6_Witness ==
  /\ Len(created) = 2
  /\ SameButPrices(created[1].cart, created[2].cart)
  /\ created[1].cart # created[2].cart
  /\ created[1].line_items = created[2].line_items

\* C7: when validateProductPrice returns a verified item, the attempt that
\* returns it has retrieved the product and its default price from the
\* provider, the price is active, the claimed price is within 0.01 of it and
\* the item carries that price; a line whose attempts all failed is reported
\* as failed, the item is never taken from the price cache
C7_AcceptedOnlyAfterLiveFetch ==
  (co.pc = "line_settled" /\ co.settled.ok)
    => /\ co.attempt >= 1 /\ co.attempt <= Retries
       /\ co.stripeProduct # ""
       /\ co.stripePrice.id = co.stripeProduct
       /\ co.stripePrice.active
       /\ ~PriceMismatch(actualPrice(UnitAmount(co.stripePrice.id)),
                         co.cart[co.i].price)
       /\ co.settled.stripePriceId = co.stripePrice.id
       /\ co.settled.validatedPrice = actualPrice(UnitAmount(co.stripePrice.id))

\* C7 witness: the last attempt of a line timed out and the line is reported
\* as failed, while the price cache holds a price that matches the claimed one
C7_Witness ==
  /\ co.pc = "line_settled" /\ ~co.settled.ok
  /\ co.settled.kind = "transient" /\ co.attempt = Retries
  /\ priceCache["prod_ring"].priceId # ""
  /\ Abs(priceCache["prod_ring"].price - co.cart[co.i].price) <= Tolerance

\* C8 (state part): a session is being or was submitted only with every line
\* of the cart validated; with a failed line validateCart has thrown and the
\* answer is 400; every created session has a validated item for every line
C8_AllOrNothing ==
  /\ (co.pc = "create" \/ (co.pc = "done" /\ co.code # 400))
       => (co.errors = <<>> /\ co.failure \in {"", "provider"}
           /\ Len(co.validated) = Len(co.cart) /\ Len(co.cart) >= 1)
  /\ (co.pc \in {"cart_settled", "done"} /\ Len(co.errors) > 0)
       => (co.failure = "lines" /\ (co.pc = "done" => co.code = 400))
  /\ \A c \in 1..Len(created) :
       /\ Len(created[c].validated) = Len(created[c].cart)
       /\ \A n \in 1..Len(created[c].cart) :
            created[c].validated[n].ok /\ created[c].validated[n].pos = n

\* C8 (step part): the step that answers a request with a validation failure,
\* and every step of a request with a failed line, creates no session
C8_Step ==
  ((co'.pc = "done" /\ co'.code = 400) \/ Len(co'.errors) > 0)
    => created' = created

\* C8: checkout is all-or-nothing: createCheckoutSession submits a session to
\* the provider only if every line of the cart validated; if a line failed,
\* validateCart returns no validated cart, no session is created and the
\* caller receives a validation failure
C8_CheckoutAllOrNothing == [](C8_AllOrNothing) /\ [][C8_Step]_vars

\* C8 witness: a cart with one accepted and one failed line was answered 400
\* and no session exists
C8_Witness ==
  /\ co.pc = "done" /\ co.code = 400 /\ co.failure = "lines"
  /\ Len(co.validated) = 1 /\ Len(co.errors) = 1 /\ created = <<>>


\* the reasons the 400 answer of the checkout request carries for cart line i
ReasonsAt(i) ==
  {e \in 1..Len(co.errors) : co.errors[e].pos = i}
    \cup (IF co.rejected.pos = i THEN {0} ELSE {})

\* C19: when a checkout request is answered with a validation failure, the
\* answer carries a reason for every line of the cart that is invalid (no
\* productId, no positive price, a quantity below 1 or above 100, a size
\* outside 6..12), not only for the first
C19_EveryFailingLineReported ==
  (co.pc = "done" /\ co.code = 400
     /\ Len(co.cart) >= 1 /\ Len(co.cart) <= MaxCartItems)
    => \A i \in 1..Len(co.cart) :
         (~ItemAccepted(co.cart[i]) \/ StructureError(co.cart[i]) # "")
           => ReasonsAt(i) # {}

\* C20: validateCart called with an empty cart fails with the reason "Cart is
\* empty", called with more than 50 lines it fails with the reason "Cart too
\* large", in both cases at once, with no line examined and no provider call
\* issued; called with exactly 50 lines it examines the lines and does not
\* fail for the size
C20_SizeChecksBeforeProviderCalls ==
  co.pc # "idle"
    => /\ (Len(co.cart) = 0 \/ Len(co.cart) > MaxCartItems)
            => /\ co.pc = "cart_settled"
               /\ co.failure = (IF Len(co.cart) = 0 THEN "empty" ELSE "too_large")
               /\ co.attempt = 0 /\ co.i = 0 /\ co.stripeProduct = ""
               /\ co.errors = <<>> /\ co.validated = <<>>
       /\ (Len(co.cart) >= 1 /\ Len(co.cart) <= MaxCartItems)
            => /\ co.failure \in {"", "lines"}
               /\ co.i >= 1
               /\ co.pc = "cart_settled"
                    => Len(co.errors) + Len(co.validated) = Len(co.cart)

\* C20 witness: validateCart has finished a cart of exactly 50 lines whose
\* last line was validated with the provider; it fails for the other lines
C20_Witness ==
  /\ co.pc = "cart_settled" /\ Len(co.cart) = MaxCartItems
  /\ co.failure = "lines" /\ Len(co.validated) = 1
  /\ co.validated[1].pos = MaxCartItems /\ co.attempt >= 1

(* -------------------------- validateCart: totals ----------------------- *)

\* the sum over the lines of quantity times the unit amount (cents) of the
\* provider price the line was verified against
RECURSIVE SumOfCents(_, _)
SumOfCents(cart, validated) ==
  IF Len(validated) = 0 THEN 0
  ELSE cart[1].quantity * UnitAmount(validated[1].stripePriceId)
         + SumOfCents(Tail(cart), Tail(validated))

\* the lines of the cart all passed and each claims exactly the price the
\* provider answered for it
AllLinesAtProviderPrice(h) ==
  /\ Len(h.cart) \in 1..MaxCartItems
  /\ Len(h.validated) = Len(h.cart)
  /\ \A j \in 1..Len(h.cart) :
       h.cart[j].price = actualPrice(UnitAmount(h.validated[j].stripePriceId))

C21_Inv ==
  co.pc = "cart_settled" =>
    /\ AllLinesAtProviderPrice(co) => co.failure = ""
    /\ co.failure = "" =>
         /\ itemCount(co.validated) = Len(co.cart)
         /\ totalAmount(co.validated) = 10 * SumOfCents(co.cart, co.validated)

C21_Step ==
  (/\ co.pc = "price" /\ co'.pc = "line_settled"
   /\ co'.stripePrice.active
   /\ co.cart[co.i].price = actualPrice(UnitAmount(co'.stripePrice.id)))
    => /\ co'.settled.ok
       /\ co'.settled.validatedPrice = co.cart[co.i].price
       /\ co'.settled.totalPrice = co.cart[co.i].quantity * co.cart[co.i].price

\* C21: a line that claims exactly the active price the provider answers is
\* accepted at that price, its totalPrice being quantity times that price; a
\* cart whose lines were all accepted that way makes validateCart succeed, and
\* whenever validateCart succeeds its totalAmount is the sum over the lines of
\* quantity times the provider's unit amount and its itemCount is the number
\* of lines of the cart
C21_TotalsOfValidCart == [](C21_Inv) /\ [][C21_Step]_vars

\* validateCart returned for a cart of two lines that both claim exactly the
\* provider's price
C21_Witness ==
  /\ co.pc = "cart_settled" /\ co.failure = "" /\ Len(co.cart) = MaxLines
  /\ AllLinesAtProviderPrice(co)
  /\ totalAmount(co.validated) = 10 * 4 * UnitAmount("price_a")

(* ---------------------- validateProductPrice: retries ------------------ *)

\* validateProductPrice is between its call and its return or throw
Validating == co.pc \in {"product", "price", "backoff"}

C22_Inv ==
  /\ Validating => co.attempt \in 1..Retries
  /\ co.pc = "backoff" => co.attempt < Retries

C22_Step ==
  /\ (co.pc \in {"product", "price"} /\ co'.pc = "backoff")
       => co'.attempt = co.attempt /\ co'.i = co.i
  /\ (co.pc = "backoff" /\ co' # co)
       => co'.pc = "product" /\ co'.attempt = co.attempt + 1 /\ co'.i = co.i
  /\ (Validating /\ co'.pc = "line_settled" /\ co'.settled.kind = "transient")
       => /\ co.attempt = Retries /\ co'.attempt = Retries
          /\ ~co'.settled.ok /\ co'.settled.pos = co.i

\* C22: validateProductPrice makes at most Retries (3) attempts for a cart
\* line and then returns or throws: a transient failure of attempt 1 or 2
\* leads to the backoff and from there to the next attempt for the same line,
\* a transient failure is reported as the line's failure only on attempt 3,
\* and a call that is validating always reaches its end
C22_AtMostThreeAttempts ==
  /\ [](C22_Inv)
  /\ [][C22_Step]_vars
  /\ (Validating ~> co.pc = "line_settled")

\* the third attempt failed with a timeout and the line is reported as failed
C22_Witness ==
  /\ co.pc = "line_settled" /\ co.attempt = Retries
  /\ co.settled.kind = "transient" /\ ~co.settled.ok

(* -------------------- validateProductPrice: rejections ----------------- *)

\* the rejections validateProductPrice throws from what the provider answered
Rejections == {"no_default_price", "price_inactive", "price_mismatch"}

\* the answer of prices.retrieve rejects the line: the price is archived or
\* differs from the claimed one
PriceRejects(h, price) ==
  \/ ~price.active
  \/ PriceMismatch(actualPrice(UnitAmount(price.id)), h.cart[h.i].price)

C23_Inv == co.pc = "backoff" => co.error \notin Rejections

C23_Step ==
  /\ (co.pc = "price" /\ co' # co /\ co'.stripePrice # NoPrice
        /\ PriceRejects(co, co'.stripePrice))
       => /\ co'.pc = "line_settled" /\ co'.settled.kind \in Rejections
          /\ co'.attempt = co.attempt
  /\ (Validating /\ co'.pc = "line_settled" /\ co'.settled.kind \in Rejections)
       => /\ ~co'.settled.ok /\ co'.settled.pos = co.i
          /\ co'.attempt = co.attempt /\ co.pc # "backoff"
  /\ (co.pc = "line_settled" /\ co.settled.kind \in Rejections /\ co' # co)
       => /\ co'.i > co.i
          /\ Len(co'.errors) > Len(co.errors)
          /\ SubSeq(co'.errors, 1, Len(co.errors) + 1)
               = Append(co.errors, co.settled)

\* C23: a rejection (price mismatch, no default price, inactive default price)
\* is never retried: the backoff is never awaited for one, the attempt on
\* which it occurs is the last one of the line, the line fails with that
\* rejection, and validateCart records it and goes on with the next line
C23_RejectionIsNotRetried == [](C23_Inv) /\ [][C23_Step]_vars

\* a mismatch found on the second attempt, after a timeout on the first
C23_Witness ==
  /\ co.pc = "line_settled" /\ co.settled.kind = "price_mismatch"
  /\ co.attempt = 2

(* ----------------------- validateCart: frame, outcome ------------------ *)

\* what validateCart settles for one line when the provider answers every
\* call from the catalog as it is now
ExpectedLine(item, j) ==
  LET q == defaultPrice[getProductIdMap(item.id)] IN
  IF StructureError(item) # ""
  THEN Reason(StructureError(item),
              IF StructureError(item) = "missing_fields" THEN "" ELSE item.id, j)
  ELSE IF getProductIdMap(item.id) = "" THEN Reason("invalid_product", item.id, j)
  ELSE IF q = "" THEN Reason("no_default_price", item.id, j)
  ELSE IF ~priceActive[q] THEN Reason("price_inactive", item.id, j)
  ELSE IF PriceMismatch(actualPrice(UnitAmount(q)), item.price)
  THEN Reason("price_mismatch", item.id, j)
  ELSE ValidatedItem(item, q, j)

ExpectedLines(cart) == [j \in 1..Len(cart) |-> ExpectedLine(cart[j], j)]

IsOk(x) == x.ok
IsReason(x) == ~x.ok

\* no provider call of the validateCart call failed
ProviderAnswered(h) ==
  \A n \in 1..Len(h.errors) : h.errors[n].kind \notin {"transient", "fatal"}

C24_Inv ==
  co.pc = "cart_settled" =>
    /\ co.failure = "empty" <=> Len(co.cart) = 0
    /\ co.failure = "too_large" <=> Len(co.cart) > MaxCartItems
    /\ (co.failure \in {"", "lines"} /\ env.changes = 0 /\ ProviderAnswered(co))
         => /\ co.validated = SelectSeq(ExpectedLines(co.cart), IsOk)
            /\ co.errors = SelectSeq(ExpectedLines(co.cart), IsReason)
            /\ co.failure = "" <=> co.errors = <<>>

C24_Step == co' # co => UNCHANGED <<priceCache, lastCacheUpdate, orders>>

\* C24: no step of a checkout (validateCart and its validateProductPrice
\* calls) changes priceCache, lastCacheUpdate or the order store, also while a
\* cache refresh is in flight; and the outcome of validateCart is a function
\* of the cart and the provider's catalog: with the catalog unchanged and
\* every provider call answered, any call with the same cart, the first and
\* every later one, settles the same accepted lines at the same prices and
\* the same failure reasons
C24_ValidateCartIsPure == [](C24_Inv) /\ [][C24_Step]_vars

\* a second validateCart call settled, with accepted and failed lines, after
\* a refresh filled the cache
C24_Witness ==
  /\ co.pc = "cart_settled" /\ env.checkouts = 2 /\ env.changes = 0
  /\ ProviderAnswered(co) /\ co.errors # <<>> /\ co.validated # <<>>
  /\ lastCacheUpdate # 0

(* ============================ catalog: properties ====================== *)

\* the Map before any refresh
EmptyCache == [p \in StripeProducts |-> NoEntry]

\* the step is the assignment of updatePriceCache, by the startup refresh or
\* by the catalog read r
StartupAssigns == refresh.pc = "assign" /\ refresh'.pc # "assign"
ReadAssigns(r) == reads[r].pc = "assign" /\ reads'[r].pc # "assign"

\* a refresh is suspended on its provider call or about to assign
InFlight ==
  {r \in Readers : reads[r].pc \in {"list", "assign"}}
    \cup (IF refresh.pc \in {"list", "assign"} THEN {0} ELSE {})

C25_Step ==
  /\ StartupAssigns => priceCache' = refresh.fetched
  /\ \A r \in Readers : ReadAssigns(r) => priceCache' = reads[r].fetched
  /\ priceCache' # priceCache =>
       (StartupAssigns \/ \E r \in Readers : ReadAssigns(r))
  /\ (refresh.pc = "list" /\ refresh'.pc = "assign")
       => refresh'.fetched = fetchStripeProducts
  /\ \A r \in Readers :
       /\ (reads[r].pc = "list" /\ reads'[r].pc = "assign")
            => reads'[r].fetched = fetchStripeProducts
       /\ (reads[r].pc = "assign" /\ reads'[r].pc = "assign")
            => reads'[r].fetched = reads[r].fetched
       /\ (reads[r].pc = "assign" /\ reads'[r].pc = "done")
            => reads'[r].products = getAllProducts(priceCache')

C25_Inv ==
  \A r \in Readers :
    (reads[r].pc = "done" /\ reads[r].code = 200) =>
      \A n \in 1..Len(reads[r].products) :
        LET e == reads[r].products[n] IN
          /\ ProductOf(e.stripePriceId) = e.stripeProductId
          /\ e.price = actualPrice(UnitAmount(e.stripePriceId))

\* C25: priceCache changes only in the assignment of a refresh, and that
\* assignment makes it exactly the Map that this refresh built from one
\* products.list answer (the provider's catalog at one instant), whatever
\* other refreshes are in flight; in every other step the cache stays the
\* previous Map. A catalog read builds all its products from the cache of
\* the one state in which it reads
C25_RefreshIsAtomic == [](C25_Inv) /\ [][C25_Step]_vars

\* a read answered with both products while a second read is about to assign
\* a Map that differs from the cache and the startup refresh is suspended on
\* its provider call
C25_Witness ==
  /\ reads[1].pc = "done" /\ Len(reads[1].products) = 2
  /\ reads[2].pc = "assign" /\ reads[2].fetched # priceCache
  /\ InFlight = {0, 2} /\ refresh.pc = "list" /\ priceCache # EmptyCache

\* the refresh of the startup, or of the catalog read r, fails in this step
StartupFetchFails == refresh.pc = "list" /\ refresh'.pc = "idle"
ReadFetchFails(r) == reads[r].pc = "list" /\ reads'[r].pc = "done"

C26_Step ==
  /\ StartupFetchFails => UNCHANGED <<priceCache, lastCacheUpdate>>
  /\ \A r \in Readers :
       ReadFetchFails(r) =>
         /\ UNCHANGED <<priceCache, lastCacheUpdate>>
         /\ reads'[r].error \in ListOutcomes \ {"ok"}
         /\ reads'[r].code >= 400 /\ reads'[r].products = <<>>
  /\ (priceCache' # priceCache \/ lastCacheUpdate' \notin {lastCacheUpdate, 0})
       => (StartupAssigns \/ \E r \in Readers : ReadAssigns(r))

\* C26: the step in which a refresh fails leaves priceCache and
\* lastCacheUpdate as they are and the error is thrown to the caller (the
\* catalog read ends with it); the cache gets other entries, and
\* lastCacheUpdate another stamp, only in the assignment of a refresh whose
\* fetch succeeded
C26_FailedRefreshKeepsSnapshot == [][C26_Step]_vars

\* a catalog read ended with the error of its refresh and the snapshot of an
\* earlier refresh is still in the cache
C26_Witness ==
  /\ \E r \in Readers : reads[r].pc = "done" /\ reads[r].error = "connection"
  /\ priceCache # EmptyCache /\ lastCacheUpdate # 0

\* C27: a catalog read whose refresh fails while the cache holds a snapshot
\* is answered 200 with the products of that snapshot
C27_StaleReadOnFailure ==
  [][\A r \in Readers :
       (ReadFetchFails(r) /\ priceCache # EmptyCache)
         => /\ reads'[r].code = 200
            /\ reads'[r].products = getAllProducts(priceCache)]_vars

\* the step is a call of invalidateCache that changes something
Invalidates == lastCacheUpdate # 0 /\ lastCacheUpdate' = 0

C28_Step ==
  /\ Invalidates =>
       UNCHANGED <<priceCache, refresh, reads, defaultPrice, priceActive>>
  /\ \A r \in Readers :
       /\ (reads[r].pc = "idle" /\ reads'[r] # reads[r])
            => reads'[r] = [reads[r] EXCEPT !.pc = "list"]
       /\ (reads'[r].code = 200 /\ reads[r].code # 200)
            => /\ reads[r].pc = "assign"
               /\ priceCache' = reads[r].fetched /\ lastCacheUpdate' # 0
       /\ reads'[r].products # reads[r].products => reads[r].pc = "assign"

C28_Inv ==
  \A r \in Readers :
    /\ reads[r].pc \in {"idle", "list", "assign"} => reads[r].products = <<>>
    /\ reads[r].products # <<>> => reads[r].code = 200

\* C28: invalidateCache sets lastCacheUpdate to null and nothing else: the
\* entries of priceCache stay and no refresh or read moves (no provider call
\* is issued); and every catalog read, whatever lastCacheUpdate is, first
\* awaits the provider's list, assigns the fetched Map, and only then reads
\* the cache
C28_InvalidateOnlyMarksStale == [](C28_Inv) /\ [][C28_Step]_vars

\* the snapshot of an answered read is marked stale, its entries are still in
\* the cache, and the next read has fetched and is about to assign
C28_Witness ==
  /\ lastCacheUpdate = 0 /\ priceCache # EmptyCache
  /\ reads[1].pc = "done" /\ reads[1].code = 200
  /\ reads[1].products = getAllProducts(priceCache)
  /\ reads[2].pc = "assign" /\ refresh.pc = "idle"

\* a line that is structurally invalid: its productId has no configured
\* provider product, or its quantity is below 1 or above 100
StructurallyInvalid(item) ==
  \/ getProductIdMap(item.id) = ""
  \/ item.quantity < MinQuantity \/ item.quantity > MaxQuantity

StructureReasons == {"missing_fields", "invalid_quantity", "invalid_product"}

\* validateProductPrice is awaiting the provider, or its backoff, for line co.i
Fetching == co.pc \in {"product", "price", "backoff"}

\* the lines validateCart has dealt with so far
LinesDone ==
  IF co.pc \in {"idle", "done"} \/ co.failure \in {"empty", "too_large"} THEN {}
  ELSE {j \in 1..Len(co.cart) : j < co.i}

C33_Inv ==
  /\ Fetching => ~StructurallyInvalid(co.cart[co.i])
  /\ (co.pc = "line_settled" /\ StructurallyInvalid(co.cart[co.i]))
       => /\ co.attempt = 0 /\ ~co.settled.ok
          /\ co.settled.kind = "invalid_product" /\ co.settled.pos = co.i
  /\ \A j \in LinesDone :
       IF StructurallyInvalid(co.cart[j])
       THEN /\ \E n \in 1..Len(co.errors) :
                 co.errors[n].pos = j /\ co.errors[n].kind \in StructureReasons
            /\ \A n \in 1..Len(co.validated) : co.validated[n].pos # j
       ELSE \/ \E n \in 1..Len(co.errors) : co.errors[n].pos = j
            \/ \E n \in 1..Len(co.validated) : co.validated[n].pos = j
  /\ (co.pc = "cart_settled" /\ co.failure \notin {"empty", "too_large"})
       => co.i = Len(co.cart) + 1

\* a structurally invalid line is passed without a provider call: from the
\* line before it the loop goes to it and beyond, or settles it, in the step
\* that settles the line before
C33_Step ==
  (co.pc = "line_settled" /\ co' # co /\ co.i < Len(co.cart)
     /\ StructurallyInvalid(co.cart[co.i + 1]))
    => \/ co'.i > co.i + 1
       \/ co'.i = co.i + 1 /\ co'.pc = "line_settled" /\ co'.attempt = 0

\* C33: a cart line that is structurally invalid (its productId has no
\* configured provider product, or its quantity is below 1 or above 100) is
\* rejected with a reason for that line and no provider fetch is issued for
\* it, while the other lines of the cart are still validated: each of them
\* ends among the validated items or among the reasons, and the loop reaches
\* the end of the cart
C33_InvalidLineCostsNoFetch == [](C33_Inv) /\ [][C33_Step]_vars

\* a cart of two lines is settled: the first, with a quantity below 1, has a
\* reason and the second has been verified with the provider
C33_Witness ==
  /\ co.pc = "cart_settled" /\ Len(co.cart) = 2
  /\ co.cart[1].quantity = -1
  /\ Len(co.errors) = 1 /\ co.errors[1].pos = 1
  /\ co.errors[1].kind = "invalid_quantity"
  /\ Len(co.validated) = 1 /\ co.validated[1].pos = 2

\* the request went through the middleware to createCheckoutSession
PassedMiddleware == co.pc # "idle" /\ co.failure # "middleware"

\* the size the middleware lets through: null, or a number from 6 to 12
SizeAccepted(size) == size = 0 \/ (size >= MinSize /\ size <= MaxSize)

\* the sizes a product of its type can have: 6 to 12 for a ring, none for a
\* product without sizes
IsRing(id) == id \in {"ring-black", "ring-white"}
SizeOfType(item) ==
  item.size = 0 \/ (IsRing(item.id) /\ item.size >= MinSize /\ item.size <= MaxSize)

C34_Inv ==
  /\ PassedMiddleware => \A i \in 1..Len(co.cart) : SizeAccepted(co.cart[i].size)
  /\ \A k \in 1..Len(created) :
       \A i \in 1..Len(created[k].cart) : SizeAccepted(created[k].cart[i].size)
  /\ (co.pc # "idle" /\ \E i \in 1..Len(co.cart) : ~SizeAccepted(co.cart[i].size))
       => /\ co.pc = "done" /\ co.code = 400 /\ co.failure = "middleware"
          /\ co.validated = <<>>

C34_Step ==
  (co'.pc # "idle" /\ co'.cart # co.cart
     /\ \E i \in 1..Len(co'.cart) : ~SizeAccepted(co'.cart[i].size))
    => /\ co'.pc = "done" /\ co'.code = 400 /\ created' = created
       /\ (\A i \in 1..Len(co'.cart) : ItemAcceptedAnySize(co'.cart[i]))
            => co'.rejected.kind = "invalid_size"

C35_Inv ==
  /\ co.pc = "backoff"
       => /\ co.attempt \in {1, 2} /\ co.error = "transient"
          /\ (co.attempt = 1 => co.wait = 100)
          /\ (co.attempt = 2 => co.wait = 200)
  /\ co.pc # "backoff" => co.wait = 0

C35_Step ==
  /\ (co.pc \in {"product", "price"} /\ co'.pc = "backoff")
       => /\ co'.attempt = co.attempt
          /\ co'.wait = IF co.attempt = 1 THEN 100 ELSE 200
  /\ (co.pc = "backoff" /\ co' # co)
       => co'.pc = "product" /\ co'.attempt = co.attempt + 1
  /\ (co.pc \in {"product", "price"} /\ co.attempt = Retries /\ co' # co)
       => co'.pc # "backoff" /\ co'.wait = 0

Sanitized(str) ==
  /\ \A i \in 1..Len(str) : str[i] \notin {"<", ">"}
  /\ Len(str) <= MaxStringLength

SanitizedBody(body) ==
  /\ Sanitized(body.customerEmail)
  /\ \A n \in 1..Len(body.items) : Sanitized(body.items[n].colorName)

\* C36: input sanitization runs on all requests before the route handlers:
\* for every request that reaches a route handler with a JSON body, the body
\* the handler reads has passed through sanitizeBody: its string fields
\* contain no '<' or '>' and are at most 1000 characters long
C36_HandlerReadsSanitizedBody ==
  (http.pc = "done" /\ http.parsed) => SanitizedBody(http.read)

(* ================= product and price events: properties ================ *)

\* a verified product or price event has been handled
Handled(q) == q.kind = "webhook" /\ q.evType \in CatalogEvents /\ q.pc = "done"
EventHandled == \E q \in Requests : Handled(req[q])

C37_Step ==
  /\ \A q \in Requests :
       (~Handled(req[q]) /\ Handled(req'[q]))
         => /\ req'[q].code = 200
            /\ UNCHANGED <<orders, priceCache, lastCacheUpdate, reads, refresh>>
  /\ \A r \in Readers :
       /\ (reads[r].pc = "idle" /\ reads'[r] # reads[r])
            => reads'[r].pc = "list" /\ reads'[r].fetched = EmptyCache
       /\ (reads[r].pc = "list" /\ reads'[r].pc = "assign")
            => reads'[r].fetched = fetchStripeProducts
       /\ (reads[r].pc = "assign" /\ reads'[r] # reads[r])
            => /\ reads'[r].fetched = reads[r].fetched
               /\ reads'[r].products = getAllProducts(reads[r].fetched)

C37_Inv ==
  /\ Len(orders) = 1
  /\ \A r \in Readers :
       (reads[r].pc = "done" /\ reads[r].code = 200)
         => reads[r].products = getAllProducts(reads[r].fetched)

\* C37: after a verified product or price change event (product.created,
\* product.updated, price.created, price.updated) has been handled, the
\* event is acknowledged with 200 and the order store and the price cache
\* are as they were; every catalog read, and so the next one after the
\* event, starts with nothing fetched, asks the provider after it has
\* started, and answers with the products of the Map it fetched itself,
\* never with a price that was in the cache before
C37_NextReadIsFresh == [](C37_Inv) /\ [][C37_Step]_vars

\* the cache held price_a for the ring, the owner made price_b the default,
\* the price event was handled, and a read has answered with price_b
C37_Witness ==
  /\ EventHandled /\ Len(orders) = 1
  /\ defaultPrice["prod_ring"] = "price_b"
  /\ env.refreshes = 1 /\ refresh.pc = "idle" /\ refresh.fetched["prod_ring"].priceId = "price_a"
  /\ reads[1].pc = "done" /\ reads[1].code = 200
  /\ \E n \in 1..Len(reads[1].products) :
       reads[1].products[n].stripePriceId = "price_b"
  /\ reads[2].pc = "idle"

====
